---- MODULE Spec2Model ----
(***************************************************************************)
(* Zoho -> VSDC relay: the transform / submit / interpret pipeline of the  *)
(* four webhook handlers (main.py and the v1 WebhookController, invoice    *)
(* and credit note), with the payload transformer they call.               *)
(*                                                                         *)
(* Conventions.  A Python str is a sequence of one-character strings.  A   *)
(* JSON value that may be missing, null or a string is a record            *)
(* [t, s] with t in {"absent", "none", "str"}.  A JSON value that may be   *)
(* missing, null, a number or a non-numeric string is a record [t, n]     *)
(* with t in {"absent", "none", "num", "text"}.  Rates and quantities are  *)
(* whole numbers; money amounts are kept in hundredths (cents).            *)
(***************************************************************************)
EXTENDS Integers, Sequences, FiniteSets, TLC

VARIABLES pc, app, kind, zoho_payload, vsdc_payload, requests, reply,
          renderCalls, renderResult, outcome, deliveries, fiscalLog, setup

\* the invocation that is followed step by step
invocation == <<pc, app, kind, zoho_payload, vsdc_payload, requests, reply,
                renderCalls, renderResult, outcome>>

\* webhook deliveries in flight together, and the requests the fiscal
\* endpoint has received from them
concurrent == <<deliveries, fiscalLog>>

\* setup is the run of setup_all_custom_fields in progress

vars == <<invocation, concurrent, setup>>

(***************************************************************************)
(* Bounds of the model.                                                    *)
(***************************************************************************)
MaxItems == 2
MaxDeliveries == 2

(***************************************************************************)
(* Python str helpers.                                                     *)
(***************************************************************************)
Digits == {"0", "1", "2", "3", "4", "5", "6", "7", "8", "9"}

Whitespace == {" "}

DigitValue(c) ==
    CASE c = "0" -> 0 [] c = "1" -> 1 [] c = "2" -> 2 [] c = "3" -> 3
      [] c = "4" -> 4 [] c = "5" -> 5 [] c = "6" -> 6 [] c = "7" -> 7
      [] c = "8" -> 8 [] c = "9" -> 9

DigitChar(d) ==
    CASE d = 0 -> "0" [] d = 1 -> "1" [] d = 2 -> "2" [] d = 3 -> "3"
      [] d = 4 -> "4" [] d = 5 -> "5" [] d = 6 -> "6" [] d = 7 -> "7"
      [] d = 8 -> "8" [] d = 9 -> "9"

RECURSIVE lstrip(_)
lstrip(s) ==
    IF s # <<>> /\ Head(s) \in Whitespace THEN lstrip(Tail(s)) ELSE s

RECURSIVE rstrip(_)
rstrip(s) ==
    IF s # <<>> /\ s[Len(s)] \in Whitespace
    THEN rstrip(SubSeq(s, 1, Len(s) - 1))
    ELSE s

strip(s) == rstrip(lstrip(s))

isdigit(s) == s # <<>> /\ \A i \in 1..Len(s) : s[i] \in Digits

\* int(s) for a string of decimal digits
RECURSIVE int(_)
int(s) ==
    IF s = <<>> THEN 0
    ELSE 10 * int(SubSeq(s, 1, Len(s) - 1)) + DigitValue(s[Len(s)])

\* str(n) for n >= 0
RECURSIVE str(_)
str(n) ==
    IF n < 10 THEN <<DigitChar(n)>>
    ELSE Append(str(n \div 10), DigitChar(n % 10))

\* s[-k:]
LastChars(s, k) == IF Len(s) <= k THEN s ELSE SubSeq(s, Len(s) - k + 1, Len(s))

\* ''.join(filter(str.isdigit, s))
RECURSIVE FilterDigits(_)
FilterDigits(s) ==
    IF s = <<>> THEN <<>>
    ELSE IF Head(s) \in Digits
         THEN <<Head(s)>> \o FilterDigits(Tail(s))
         ELSE FilterDigits(Tail(s))

\* re.findall(r'\d+', s): the maximal digit runs of s, left to right
RECURSIVE findall_digits(_, _, _)
findall_digits(s, cur, acc) ==
    IF s = <<>> THEN (IF cur = <<>> THEN acc ELSE Append(acc, cur))
    ELSE IF Head(s) \in Digits
         THEN findall_digits(Tail(s), Append(cur, Head(s)), acc)
         ELSE findall_digits(Tail(s), <<>>,
                             IF cur = <<>> THEN acc ELSE Append(acc, cur))

\* the first part of length >= 3, or <<>> when there is none
RECURSIVE FirstSignificant(_)
FirstSignificant(parts) ==
    IF parts = <<>> THEN <<>>
    ELSE IF Len(Head(parts)) >= 3 THEN Head(parts)
         ELSE FirstSignificant(Tail(parts))

\* max(parts, key=len): the first part among the longest ones
RECURSIVE MaxByLen(_, _)
MaxByLen(parts, best) ==
    IF parts = <<>> THEN best
    ELSE MaxByLen(Tail(parts),
                  IF Len(Head(parts)) > Len(best) THEN Head(parts) ELSE best)

(***************************************************************************)
(* JSON values.                                                            *)
(***************************************************************************)
Absent == [t |-> "absent", s |-> <<>>]
None == [t |-> "none", s |-> <<>>]
Str(s) == [t |-> "str", s |-> s]

NAbsent == [t |-> "absent", n |-> 0]
NNone == [t |-> "none", n |-> 0]
Num(n) == [t |-> "num", n |-> n]
NText == [t |-> "text", n |-> 0]

\* Python truthiness of a value read with dict.get(key)
Truthy(v) == v.t = "str" /\ v.s # <<>>
NTruthy(v) == (v.t = "num" /\ v.n # 0) \/ v.t = "text"

(***************************************************************************)
(* utils/tax_calculator.py                                                 *)
(***************************************************************************)
\* round(a / b) to the nearest integer, ties to even (Python round), b > 0
RoundDiv(a, b) ==
    LET q == a \div b
        r == a % b
    IN  IF 2 * r < b THEN q
        ELSE IF 2 * r > b THEN q + 1
        ELSE IF q % 2 = 0 THEN q ELSE q + 1

\* variant: the tax is added on top of the price
calculate_tax_exclusive(price, tax_rate) ==
    IF tax_rate = 0 THEN 0 ELSE RoundDiv(price * tax_rate, 100)

\* calculate_tax(price, tax_rate): price and result in cents
calculate_tax(price, tax_rate) ==
    IF tax_rate = 0 THEN 0 ELSE RoundDiv(price * tax_rate, 100 + tax_rate)

\* float(v) of a value read with dict.get(key, default)
FloatOf(v, default) ==
    CASE v.t = "absent" -> [err |-> "ok", n |-> default]
      [] v.t = "none"   -> [err |-> "TypeError", n |-> 0]
      [] v.t = "text"   -> [err |-> "ValueError", n |-> 0]
      [] v.t = "num"    -> [err |-> "ok", n |-> v.n]

\* a JSON object with none of the document keys
EmptyDoc ==
    [invoice_number |-> Absent, creditnote_number |-> Absent,
     line_items |-> <<>>, date |-> Absent, invoice_date |-> Absent,
     invoices_credited |-> [t |-> "absent", refs |-> <<>>],
     custom_field_hash |->
         [cf_tin |-> Absent, cf_customer_tin |-> Absent,
          cf_purchase_code |-> Absent],
     custom_fields |-> <<>>,
     customer_custom_field_hash |-> [cf_custtin |-> Absent],
     customer_custom_fields |-> <<>>]

\* payload.get(key, payload): the document nested under `key`, or the body
\* itself when it has no such key
GetOrSelf(payload, key) ==
    IF payload.key = key THEN payload.doc
    ELSE IF payload.key = "none" THEN payload.doc
    ELSE EmptyDoc

\* payload.get(key, {})
GetOrEmpty(payload, key) ==
    IF payload.key = key THEN payload.doc ELSE EmptyDoc

\* item.get("name") or item.get("description", "")
ItemNameOrDescription(item) ==
    IF Truthy(item.name) THEN item.name
    ELSE IF item.description.t = "absent" THEN Str(<<>>)
    ELSE item.description

\* variant: the name is tested without strip()
ValidateItem_no_strip(item) ==
    LET item_name == ItemNameOrDescription(item)
    IN  IF item_name.t # "str" THEN "AttributeError"
        ELSE IF item_name.s = <<>> THEN "ValueError"
        ELSE IF ~NTruthy(item.rate) THEN "ValueError"
        ELSE IF item.rate.t = "text" THEN "ValueError"
        ELSE IF item.rate.n <= 0 THEN "ValueError"
        ELSE "ok"

\* the checks of one line item: "ok" or the exception raised
ValidateItem(item) ==
    LET item_name == ItemNameOrDescription(item)
    IN  IF item_name.t # "str" THEN "AttributeError"
        ELSE IF strip(item_name.s) = <<>> THEN "ValueError"
        ELSE IF ~NTruthy(item.rate) THEN "ValueError"
        ELSE IF item.rate.t = "text" THEN "ValueError"
        ELSE IF item.rate.n <= 0 THEN "ValueError"
        ELSE "ok"

RECURSIVE ValidateItems(_)
ValidateItems(items) ==
    IF items = <<>> THEN "ok"
    ELSE IF ValidateItem(Head(items)) # "ok" THEN ValidateItem(Head(items))
    ELSE ValidateItems(Tail(items))

\* validate_required_fields(zoho_payload): "ok" or the exception raised
validate_required_fields(payload) ==
    LET invoice_data == GetOrSelf(payload, "invoice")
        invoice_no == invoice_data.invoice_number
        items == invoice_data.line_items
    IN  IF ~Truthy(invoice_no) \/ strip(invoice_no.s) = <<>> THEN "ValueError"
        ELSE IF items = <<>> THEN "ValueError"
        ELSE ValidateItems(items)

(***************************************************************************)
(* services/payload_transformer.py                                         *)
(***************************************************************************)
\* int(s) <= 999999999, decided on the digits
RECURSIVE StripLeadingZeros(_)
StripLeadingZeros(s) ==
    IF s # <<>> /\ Head(s) = "0" THEN StripLeadingZeros(Tail(s)) ELSE s

FitsNineDigits(s) == Len(StripLeadingZeros(s)) <= 9

\* the last part of length >= 3, or <<>> when there is none
RECURSIVE LastSignificant(_)
LastSignificant(parts) ==
    IF parts = <<>> THEN <<>>
    ELSE IF Len(parts[Len(parts)]) >= 3 THEN parts[Len(parts)]
         ELSE LastSignificant(SubSeq(parts, 1, Len(parts) - 1))

\* variant: the last significant digit run is taken, not the first
extract_invoice_number_digits_last_run(invoice_number_raw, now) ==
    LET original_number == strip(invoice_number_raw)
        numeric_parts == findall_digits(original_number, <<>>, <<>>)
        significant == LastSignificant(numeric_parts)
    IN  IF isdigit(original_number) THEN original_number
        ELSE IF numeric_parts # <<>>
             THEN IF significant # <<>> THEN significant
                  ELSE MaxByLen(numeric_parts, <<>>)
        ELSE str(now.mdHM)

\* extract_invoice_number_safely(invoice_number_raw), as the digit string
\* that int() is applied to; `now` is the clock reading used by the
\* timestamp fallback
extract_invoice_number_digits(invoice_number_raw, now) ==
    LET original_number == strip(invoice_number_raw)
        numeric_parts == findall_digits(original_number, <<>>, <<>>)
        significant == FirstSignificant(numeric_parts)
    IN  IF isdigit(original_number) THEN original_number
        ELSE IF numeric_parts # <<>>
             THEN IF significant # <<>> THEN significant
                  ELSE MaxByLen(numeric_parts, <<>>)
        ELSE str(now.mdHM)

\* extract_invoice_number_safely(invoice_number_raw)
extract_invoice_number_safely(invoice_number_raw, now) ==
    int(extract_invoice_number_digits(invoice_number_raw, now))

\* variant: the limit is ten digits
TruncateInvoiceNo_ten_digits(digits) ==
    IF Len(digits) > 10 THEN int(LastChars(digits, 9)) ELSE int(digits)

\* if invoice_no > 999999999: invoice_no = int(str(invoice_no)[-9:]);
\* `digits` is str(invoice_no)
TruncateInvoiceNo(digits) ==
    IF Len(digits) > 9 THEN int(LastChars(digits, 9)) ELSE int(digits)

\* dict.get(key) of a str-valued key
Get(v) == IF v.t = "absent" THEN None ELSE v

\* the loop over invoice_data.get("custom_fields", []) from field i on;
\* st holds tin, cust_tin and purchase_code
RECURSIVE ScanCustomFields(_, _, _)
ScanCustomFields(fields, i, st) ==
    IF i > Len(fields) THEN st
    ELSE LET api_name == fields[i].api_name
             value == Get(fields[i].value)
         IN  ScanCustomFields(fields, i + 1,
               IF api_name = "cf_tin" /\ ~Truthy(st.tin)
               THEN [st EXCEPT !.tin = value]
               ELSE IF api_name = "cf_customer_tin" /\ ~Truthy(st.cust_tin)
               THEN [st EXCEPT !.cust_tin = value]
               ELSE IF api_name = "cf_purchase_code"
                       /\ ~Truthy(st.purchase_code)
               THEN [st EXCEPT !.purchase_code = value]
               ELSE st)

\* the loop over invoice_data.get("customer_custom_fields", []): the value
\* of the first field named cf_custtin, else cust_tin as it was
RECURSIVE ScanCustomerFields(_, _, _)
ScanCustomerFields(fields, i, cust_tin) ==
    IF i > Len(fields) THEN cust_tin
    ELSE IF fields[i].api_name = "cf_custtin" THEN Get(fields[i].value)
    ELSE ScanCustomerFields(fields, i + 1, cust_tin)

\* if x: x = x.strip()
StripIfTruthy(v) == IF Truthy(v) THEN Str(strip(v.s)) ELSE v

\* x if x else None
OrNone(v) == IF Truthy(v) THEN v ELSE None

\* variant: the custom-field list overrides the custom-field mapping
InvoiceIdentifiers_list_first(invoice_data) ==
    LET custom_field_hash == invoice_data.custom_field_hash
        listed == ScanCustomFields(invoice_data.custom_fields, 1,
                    [tin |-> None, cust_tin |-> None, purchase_code |-> None])
        pick(l, h) == IF Truthy(l) THEN l ELSE Get(h)
    IN  [tin |-> StripIfTruthy(pick(listed.tin, custom_field_hash.cf_tin)),
         custTin |->
             OrNone(StripIfTruthy(pick(listed.cust_tin,
                                       custom_field_hash.cf_customer_tin))),
         prcOrdCd |->
             OrNone(StripIfTruthy(pick(listed.purchase_code,
                                       custom_field_hash.cf_purchase_code)))]

\* transform_zoho_to_vsdc: tin, custTin and prcOrdCd of the payload
InvoiceIdentifiers(invoice_data) ==
    LET custom_field_hash == invoice_data.custom_field_hash
        hashed == [tin |-> Get(custom_field_hash.cf_tin),
                   cust_tin |-> Get(custom_field_hash.cf_customer_tin),
                   purchase_code |-> Get(custom_field_hash.cf_purchase_code)]
        listed ==
            IF ~Truthy(hashed.tin) \/ ~Truthy(hashed.cust_tin)
               \/ ~Truthy(hashed.purchase_code)
            THEN ScanCustomFields(invoice_data.custom_fields, 1, hashed)
            ELSE hashed
        from_customer_hash ==
            Get(invoice_data.customer_custom_field_hash.cf_custtin)
        cust_tin ==
            IF Truthy(listed.cust_tin) THEN listed.cust_tin
            ELSE IF Truthy(from_customer_hash) THEN from_customer_hash
            ELSE ScanCustomerFields(invoice_data.customer_custom_fields, 1,
                                    from_customer_hash)
    IN  [tin |-> StripIfTruthy(listed.tin),
         custTin |-> OrNone(StripIfTruthy(cust_tin)),
         prcOrdCd |-> OrNone(StripIfTruthy(listed.purchase_code))]

\* s.split(sep) for a one-character separator
RECURSIVE SplitOn(_, _, _, _)
SplitOn(s, sep, cur, acc) ==
    IF s = <<>> THEN Append(acc, cur)
    ELSE IF Head(s) = sep THEN SplitOn(Tail(s), sep, <<>>, Append(acc, cur))
    ELSE SplitOn(Tail(s), sep, Append(cur, Head(s)), acc)

\* s.split(): the runs of non-whitespace characters
split(s) == SelectSeq(SplitOn(s, " ", <<>>, <<>>), LAMBDA part : part # <<>>)

\* a run of minlen..maxlen digits
IsDigits(part, minlen, maxlen) ==
    /\ Len(part) \in minlen..maxlen
    /\ \A i \in 1..Len(part) : part[i] \in Digits

DaysInMonth(y, m) ==
    IF m \in {4, 6, 9, 11} THEN 30
    ELSE IF m # 2 THEN 31
    ELSE IF y % 4 = 0 /\ (y % 100 # 0 \/ y % 400 = 0) THEN 29
    ELSE 28

NoDate == [ok |-> FALSE, y |-> 0, m |-> 0, d |-> 0]

\* the datetime of the year, month and day directives %Y, %m and %d
MakeDate(year, month, day) ==
    IF /\ IsDigits(year, 4, 4) /\ IsDigits(month, 1, 2) /\ IsDigits(day, 1, 2)
       /\ int(year) >= 1
       /\ int(month) \in 1..12
       /\ int(day) \in 1..DaysInMonth(int(year), int(month))
    THEN [ok |-> TRUE, y |-> int(year), m |-> int(month), d |-> int(day)]
    ELSE NoDate

\* the directives %H:%M:%S
IsTime(s) ==
    LET p == SplitOn(s, ":", <<>>, <<>>)
    IN  /\ Len(p) = 3
        /\ IsDigits(p[1], 1, 2) /\ int(p[1]) <= 23
        /\ IsDigits(p[2], 1, 2) /\ int(p[2]) <= 59
        /\ IsDigits(p[3], 1, 2) /\ int(p[3]) <= 61

\* the date part of a format: three fields in the order of the format
DateFields(s, sep, order) ==
    LET p == SplitOn(s, sep, <<>>, <<>>)
    IN  IF Len(p) # 3 THEN NoDate
        ELSE CASE order = "Ymd" -> MakeDate(p[1], p[2], p[3])
               [] order = "dmY" -> MakeDate(p[3], p[2], p[1])
               [] order = "mdY" -> MakeDate(p[3], p[1], p[2])

\* datetime.strptime(s, date_format); ok = FALSE stands for ValueError
strptime(s, date_format) ==
    CASE date_format = "%Y-%m-%d" -> DateFields(s, "-", "Ymd")
      [] date_format = "%d/%m/%Y" -> DateFields(s, "/", "dmY")
      [] date_format = "%m/%d/%Y" -> DateFields(s, "/", "mdY")
      [] date_format = "%Y-%m-%d %H:%M:%S" ->
           LET p == SplitOn(s, " ", <<>>, <<>>)
           IN  IF Len(p) = 2 /\ IsTime(p[2])
               THEN DateFields(p[1], "-", "Ymd")
               ELSE NoDate

\* s.rjust(n, "0")
RECURSIVE ZeroPad(_, _)
ZeroPad(s, n) == IF Len(s) >= n THEN s ELSE ZeroPad(<<"0">> \o s, n)

\* date.strftime("%Y%m%d"), for a year of four digits
strftime(date) ==
    ZeroPad(str(date.y), 4) \o ZeroPad(str(date.m), 2)
        \o ZeroPad(str(date.d), 2)

\* datetime.now().strftime("%Y%m%d")
Today(now) == str(now.ymd)

DateFormats == <<"%Y-%m-%d", "%d/%m/%Y", "%m/%d/%Y", "%Y-%m-%d %H:%M:%S">>

\* the loop over the date formats from format i on, with its else branch
RECURSIVE TryFormats(_, _, _)
TryFormats(token, i, now) ==
    IF i > Len(DateFormats) THEN Today(now)
    ELSE IF strptime(token, DateFormats[i]).ok
    THEN strftime(strptime(token, DateFormats[i]))
    ELSE TryFormats(token, i + 1, now)

\* the sales date of an invoice: the parsed document date, else today
InvoiceSalesDate(invoice_data, now) ==
    LET sales_date_raw ==
            IF invoice_data.date.t = "absent"
            THEN Get(invoice_data.invoice_date)
            ELSE invoice_data.date
    IN  IF ~Truthy(sales_date_raw) THEN Today(now)
        ELSE IF split(sales_date_raw.s) = <<>> THEN Today(now)
        ELSE TryFormats(split(sales_date_raw.s)[1], 1, now)

\* variant: the tax is computed on the unit price
VsdcItem_unit_price_tax(idx, price, quantity) ==
    LET supply_amount == price * quantity * 100
        tax_amount == calculate_tax(price * 100, 18)
    IN  [itemSeq |-> idx, qty |-> quantity, prc |-> price,
         splyAmt |-> supply_amount, taxTyCd |-> "B",
         taxblAmt |-> supply_amount, taxAmt |-> tax_amount,
         totAmt |-> supply_amount]

\* one fiscal item of the item loop, amounts in cents
VsdcItem(idx, price, quantity) ==
    LET supply_amount == price * quantity * 100
        tax_amount == calculate_tax(supply_amount, 18)
    IN  [itemSeq |-> idx, qty |-> quantity, prc |-> price,
         splyAmt |-> supply_amount, taxTyCd |-> "B",
         taxblAmt |-> supply_amount, taxAmt |-> tax_amount,
         totAmt |-> supply_amount]

\* the item loop: [err, itemList]; err is "ok" or the exception of the
\* first item whose rate or quantity float() rejects
RECURSIVE ProcessItems(_, _, _)
ProcessItems(items, idx, acc) ==
    IF idx > Len(items) THEN [err |-> "ok", itemList |-> acc]
    ELSE LET price == FloatOf(items[idx].rate, 0)
             quantity == FloatOf(items[idx].quantity, 1)
         IN  IF price.err # "ok" THEN [err |-> price.err, itemList |-> acc]
             ELSE IF quantity.err # "ok"
                  THEN [err |-> quantity.err, itemList |-> acc]
             ELSE ProcessItems(items, idx + 1,
                               Append(acc, VsdcItem(idx, price.n, quantity.n)))

\* variant: the accumulator holds the last item only
SumField_last_only(itemList, f) ==
    IF itemList = <<>> THEN 0 ELSE itemList[Len(itemList)][f]

\* the accumulators of the item loop, rounded after the loop
RECURSIVE SumField(_, _)
SumField(itemList, f) ==
    IF itemList = <<>> THEN 0
    ELSE Head(itemList)[f] + SumField(Tail(itemList), f)

\* the tax buckets A, C and D and the rates, as both transformers set them
Buckets ==
    [taxblAmtA |-> 0, taxblAmtC |-> 0, taxblAmtD |-> 0,
     taxRtA |-> 0, taxRtB |-> 18, taxRtC |-> 0, taxRtD |-> 0,
     taxAmtA |-> 0, taxAmtC |-> 0, taxAmtD |-> 0]

NoPayload ==
    [tin |-> None, custTin |-> None, prcOrdCd |-> None,
     invcNo |-> 0, orgInvcNo |-> 0, rcptTyCd |-> "", salesDt |-> <<>>,
     totItemCnt |-> 0, taxblAmtB |-> 0, taxAmtB |-> 0, totTaxblAmt |-> 0,
     totTaxAmt |-> 0, totAmt |-> 0, itemList |-> <<>>, buckets |-> Buckets]

\* raise HTTPException(status_code=400, detail=...)
TransformError(detail) ==
    [ok |-> FALSE, exc |-> "HTTPException", status |-> 400,
     detail |-> detail, payload |-> NoPayload]

TransformOk(payload) ==
    [ok |-> TRUE, exc |-> "", status |-> 0, detail |-> "",
     payload |-> payload]

\* transform_zoho_to_vsdc(zoho_payload)
transform_zoho_to_vsdc(payload, now) ==
    LET valid == validate_required_fields(payload)
        invoice_data == GetOrSelf(payload, "invoice")
        invoice_number_raw == strip(invoice_data.invoice_number.s)
        extracted ==
            StripLeadingZeros(
                extract_invoice_number_digits(invoice_number_raw, now))
        invoice_no == TruncateInvoiceNo(extracted)
        items == invoice_data.line_items
        ids == InvoiceIdentifiers(invoice_data)
        processed == ProcessItems(items, 1, <<>>)
        itemList == processed.itemList
    IN  IF valid = "ValueError"
        THEN TransformError("Invalid Zoho payload")
        ELSE IF valid # "ok"
        THEN TransformError("Error processing payload")
        ELSE IF extracted = <<>>
        THEN TransformError("Invalid Zoho payload")
        ELSE IF processed.err # "ok"
        THEN TransformError("Invalid Zoho payload")
        ELSE TransformOk(
               [tin |-> ids.tin, custTin |-> ids.custTin,
                prcOrdCd |-> ids.prcOrdCd,
                invcNo |-> invoice_no, orgInvcNo |-> 0, rcptTyCd |-> "S",
                salesDt |-> InvoiceSalesDate(invoice_data, now),
                totItemCnt |-> Len(items),
                taxblAmtB |-> SumField(itemList, "splyAmt"),
                taxAmtB |-> SumField(itemList, "taxAmt"),
                totTaxblAmt |-> SumField(itemList, "splyAmt"),
                totTaxAmt |-> SumField(itemList, "taxAmt"),
                totAmt |-> SumField(itemList, "splyAmt"),
                itemList |-> itemList, buckets |-> Buckets])

\* generate_safe_credit_note_number(credit_note_number, base_invoice_number)
generate_safe_credit_note_number(credit_note_number, base_invoice_number, now) ==
    LET cn_numeric == FilterDigits(credit_note_number.s)
        inv_numeric == FilterDigits(base_invoice_number.s)
        emergency == 900000000 + now.mdHM
    IN  IF credit_note_number.t # "str" THEN emergency
        ELSE IF Len(cn_numeric) >= 3 /\ FitsNineDigits(cn_numeric)
        THEN int(cn_numeric)
        ELSE IF base_invoice_number.t # "str" THEN emergency
        ELSE IF inv_numeric # <<>>
        THEN int(<<"9">> \o LastChars(inv_numeric, 8))
        ELSE 900000000 + now.mdHM

\* str(v) of a value that is None or a str
StrOf(v) == IF v.t = "str" THEN v.s ELSE <<"N", "o", "n", "e">>

\* dict.get(key, default) of a str-valued key
GetDefault(v, default) == IF v.t = "absent" THEN Str(default) ELSE v

\* credit_note.get("invoices_credited", [{}])[0].get("invoice_number", "INV0000")
CreditedInvoiceNumber(invoices_credited) ==
    IF invoices_credited.t = "absent"
    THEN [err |-> "ok", v |-> Str(<<"I", "N", "V", "0", "0", "0", "0">>)]
    ELSE IF invoices_credited.refs = <<>>
    THEN [err |-> "IndexError", v |-> None]
    ELSE [err |-> "ok",
          v |-> GetDefault(invoices_credited.refs[1],
                           <<"I", "N", "V", "0", "0", "0", "0">>)]

\* datetime.strptime(credit_note.get("date", today), "%Y-%m-%d")
\*     .strftime("%Y%m%d")
RefundDate(date, now) ==
    CASE date.t = "absent" -> [err |-> "ok", salesDt |-> Today(now)]
      [] date.t = "none"   -> [err |-> "TypeError", salesDt |-> <<>>]
      [] date.t = "str"    ->
           IF strptime(date.s, "%Y-%m-%d").ok
           THEN [err |-> "ok",
                 salesDt |-> strftime(strptime(date.s, "%Y-%m-%d"))]
           ELSE [err |-> "ValueError", salesDt |-> <<>>]

\* transform_zoho_credit_note_to_vsdc: tin, custTin and prcOrdCd
CreditNoteIdentifiers(credit_note) ==
    LET custom_field_hash == credit_note.custom_field_hash
        hashed == [tin |-> Get(custom_field_hash.cf_tin),
                   cust_tin |-> Get(custom_field_hash.cf_customer_tin),
                   purchase_code |-> None]
        listed ==
            IF ~Truthy(hashed.tin) \/ ~Truthy(hashed.cust_tin)
            THEN ScanCustomFields(credit_note.custom_fields, 1, hashed)
            ELSE hashed
    IN  [tin |-> IF Truthy(listed.tin) THEN listed.tin
                 ELSE Str(<<"0", "0", "0", "0", "0", "0", "0", "0", "0">>),
         custTin |-> listed.cust_tin,
         prcOrdCd |-> Get(custom_field_hash.cf_purchase_code)]

\* transform_zoho_credit_note_to_vsdc(zoho_payload)
transform_zoho_credit_note_to_vsdc(payload, now) ==
    LET credit_note == GetOrEmpty(payload, "creditnote")
        ids == CreditNoteIdentifiers(credit_note)
        credit_note_number ==
            GetDefault(credit_note.creditnote_number,
                       <<"C", "N", "0", "0", "0", "0">>)
        credited == CreditedInvoiceNumber(credit_note.invoices_credited)
        invoice_number == credited.v
        items == credit_note.line_items
        refund_date == RefundDate(credit_note.date, now)
        invc_no == generate_safe_credit_note_number(credit_note_number,
                                                    invoice_number, now)
        org_invc_no ==
            extract_invoice_number_safely(StrOf(invoice_number), now)
        processed == ProcessItems(items, 1, <<>>)
        item_list == processed.itemList
    IN  IF credited.err # "ok" \/ processed.err # "ok"
           \/ refund_date.err # "ok"
        THEN TransformError("Failed to transform credit note")
        ELSE TransformOk(
               [tin |-> ids.tin, custTin |-> ids.custTin,
                prcOrdCd |-> ids.prcOrdCd,
                invcNo |-> invc_no, orgInvcNo |-> org_invc_no,
                rcptTyCd |-> "R", salesDt |-> refund_date.salesDt,
                totItemCnt |-> Len(items),
                taxblAmtB |-> SumField(item_list, "splyAmt"),
                taxAmtB |-> SumField(item_list, "taxAmt"),
                totTaxblAmt |-> SumField(item_list, "splyAmt"),
                totTaxAmt |-> SumField(item_list, "taxAmt"),
                totAmt |-> SumField(item_list, "splyAmt"),
                itemList |-> item_list, buckets |-> Buckets])

(***************************************************************************)
(* services/vsdc_service.py                                                *)
(***************************************************************************)
\* truthiness and str() of a JSON value that is missing, null, a string or
\* a number
ValueTruthy(v) ==
    \/ v.t = "str" /\ v.s # <<>>
    \/ v.t = "num" /\ v.s # <<"0">>

StrOfValue(v) == IF v.t = "num" THEN v.s ELSE StrOf(v)

\* zoho_data[...].get("invoice_number", ...) as extract_receipt_number_safely
\* reads it, by the top-level key of the body
OriginalNumber(zoho_data) ==
    LET document_data == zoho_data.doc
    IN  IF zoho_data.key = "creditnote"
        THEN GetDefault(document_data.creditnote_number, <<>>)
        ELSE IF zoho_data.key = "invoice"
        THEN GetDefault(document_data.invoice_number, <<>>)
        ELSE IF document_data.invoice_number.t # "absent"
        THEN document_data.invoice_number
        ELSE GetDefault(document_data.creditnote_number, <<>>)

\* extract_receipt_number_safely(ebm_response, zoho_data, vsdc_payload);
\* the AttributeError of a null data object ends in the emergency fallback
extract_receipt_number_safely(ebm_response, zoho_data, payload, now) ==
    LET vsdc_receipt ==
            IF ebm_response.rcptNo.t = "absent" THEN Str(<<>>)
            ELSE ebm_response.rcptNo
        original_number == OriginalNumber(zoho_data)
    IN  IF ebm_response.data = "null"
        THEN <<"E", "R", "R", "-">> \o ZeroPad(str(now.mdHM \div 10000), 4)
                 \o ZeroPad(str(now.HMS), 6)
        ELSE IF ValueTruthy(vsdc_receipt)
                /\ strip(StrOfValue(vsdc_receipt)) # <<>>
        THEN strip(StrOfValue(vsdc_receipt))
        ELSE IF payload.invcNo # 0 THEN str(payload.invcNo)
        ELSE IF ValueTruthy(original_number)
                /\ strip(StrOfValue(original_number)) # <<>>
        THEN strip(StrOfValue(original_number))
        ELSE <<"R", "C", "P", "-">> \o str(now.ymd)
                 \o ZeroPad(str(now.HMS), 6)

(***************************************************************************)
(* The webhook handlers: main.py and                                       *)
(* backend/controllers/v1/webhook_controller.py                            *)
(***************************************************************************)
\* a response without a resultCd key
NoCode == "(missing)"

\* main.py handle_zoho_webhook: error_mapping
error_mapping_invoice ==
    ("881" :> 400) @@ ("882" :> 400) @@ ("883" :> 409) @@ ("884" :> 400)
    @@ ("901" :> 401) @@ ("910" :> 400) @@ ("921" :> 422)
    @@ ("922" :> 422) @@ ("994" :> 409)

\* variant: the credit-note table files "994" under another status
error_mapping_credit_note_divergent ==
    ("881" :> 400) @@ ("882" :> 400) @@ ("883" :> 409) @@ ("884" :> 400)
    @@ ("885" :> 400) @@ ("886" :> 409) @@ ("901" :> 401)
    @@ ("910" :> 400) @@ ("921" :> 422) @@ ("922" :> 422)
    @@ ("923" :> 400) @@ ("994" :> 422)

\* main.py handle_zoho_credit_note_webhook: error_mapping
error_mapping_credit_note ==
    ("881" :> 400) @@ ("882" :> 400) @@ ("883" :> 409) @@ ("884" :> 400)
    @@ ("885" :> 400) @@ ("886" :> 409) @@ ("901" :> 401)
    @@ ("910" :> 400) @@ ("921" :> 422) @@ ("922" :> 422)
    @@ ("923" :> 400) @@ ("994" :> 409)

\* WebhookController.handle_zoho_invoice_webhook: error_mapping
controller_error_mapping_invoice ==
    ("881" :> 400) @@ ("882" :> 400) @@ ("883" :> 409) @@ ("884" :> 400)
    @@ ("901" :> 401) @@ ("910" :> 400) @@ ("921" :> 422)
    @@ ("922" :> 422) @@ ("994" :> 409)

\* variant: the credit-note table lists one more code of its own
controller_error_mapping_credit_note_with_777 ==
    ("777" :> 400) @@ ("881" :> 400) @@ ("882" :> 400) @@ ("883" :> 409)
    @@ ("884" :> 400) @@ ("885" :> 400) @@ ("886" :> 409) @@ ("901" :> 401)
    @@ ("910" :> 400) @@ ("921" :> 422) @@ ("922" :> 422)
    @@ ("923" :> 400) @@ ("994" :> 409)

\* WebhookController.handle_zoho_credit_note_webhook: error_mapping
controller_error_mapping_credit_note ==
    ("881" :> 400) @@ ("882" :> 400) @@ ("883" :> 409) @@ ("884" :> 400)
    @@ ("885" :> 400) @@ ("886" :> 409) @@ ("901" :> 401)
    @@ ("910" :> 400) @@ ("921" :> 422) @@ ("922" :> 422)
    @@ ("923" :> 400) @@ ("994" :> 409)

\* the table of a handler
error_mapping(a, k) ==
    IF a = "main"
    THEN (IF k = "invoice" THEN error_mapping_invoice
          ELSE error_mapping_credit_note)
    ELSE (IF k = "invoice" THEN controller_error_mapping_invoice
          ELSE controller_error_mapping_credit_note)

\* error_mapping.get(result_code, 422)
MappedStatus(a, k, result_code) ==
    IF result_code \in DOMAIN error_mapping(a, k)
    THEN error_mapping(a, k)[result_code]
    ELSE 422

\* an answer: invoice_number is the content key "invoice_number" (for a
\* credit note "credit_note_number"), pdf_invoice_number the key
\* "invoice_number" of the content's "pdf_generation"
NoOutcome ==
    [status |-> 0, via |-> "", error_type |-> "", detail |-> "",
     code |-> "", http_status |-> 0, vsdc_response |-> FALSE,
     pdf_generation |-> FALSE, pdf_error |-> FALSE,
     invoice_number |-> NAbsent, pdf_invoice_number |-> <<>>]

\* return JSONResponse(status_code=..., content={"error_type": ...})
JSONError(status, error_type) ==
    [NoOutcome EXCEPT !.status = status, !.via = "JSONResponse",
                      !.error_type = error_type]

\* raise HTTPException(status_code=..., detail=...) leaving the handler
\* through `except HTTPException: raise`
HTTPError(status, detail) ==
    [NoOutcome EXCEPT !.status = status, !.via = "HTTPException",
                      !.detail = detail]

\* the outer `except Exception` of a handler
InternalError(k) ==
    JSONError(500, IF k = "invoice" THEN "internal_processing_error"
                   ELSE "internal_credit_note_processing_error")

\* what a handler answers when the transformer raised
OnTransformError(k, r) ==
    IF k = "invoice"
    THEN (IF r.exc = "HTTPException" THEN HTTPError(r.status, r.detail)
          ELSE InternalError(k))
    ELSE (IF r.exc \in {"IndexError", "KeyError", "ValueError", "TypeError"}
          THEN JSONError(400, "credit_note_transformation_error")
          ELSE JSONError(500, "internal_transformation_error"))

\* what a handler answers when client.post raised
OnPostError(k, exc) ==
    IF k = "invoice" THEN InternalError(k)
    ELSE IF exc = "timeout" THEN JSONError(504, "vsdc_timeout_error")
    ELSE JSONError(502, "vsdc_connection_error")

\* the non-200 branch
OnHttpError(k, status) ==
    [JSONError(502, IF k = "invoice" THEN "vsdc_communication_error"
                    ELSE "vsdc_credit_note_communication_error")
       EXCEPT !.http_status = status]

\* WebhookController: data_section.get('intrlData', '').strip() on the
\* parsed response, inside `try ... except ValueError`
ControllerQrLogRaises(a, r) == a = "controller" /\ r.data = "null"

\* variant: a response without resultCd counts as accepted
ResultCode_default_success(r) ==
    IF r.resultCd = NoCode THEN "000" ELSE r.resultCd

\* ebm_response.get('resultCd', '999')
ResultCode(r) == IF r.resultCd = NoCode THEN "999" ELSE r.resultCd

\* the business-rejection branch
OnRejection(a, k, result_code) ==
    [JSONError(MappedStatus(a, k, result_code),
               IF k = "invoice" THEN "vsdc_business_logic_error"
               ELSE "vsdc_credit_note_business_logic_error")
       EXCEPT !.code = result_code, !.vsdc_response = TRUE]

\* variant: the result code is read whatever the HTTP status
OnReply_ignoring_status(a, k, r) ==
    IF r.t # "response"
    THEN [next |-> "done", outcome |-> OnPostError(k, r.t)]
    ELSE IF r.body = "invalid"
    THEN [next |-> "done",
          outcome |-> HTTPError(502, "Invalid JSON response from VSDC API")]
    ELSE IF ControllerQrLogRaises(a, r)
    THEN [next |-> "done", outcome |-> InternalError(k)]
    ELSE IF ResultCode(r) = "000"
    THEN [next |-> "render", outcome |-> NoOutcome]
    ELSE [next |-> "done", outcome |-> OnRejection(a, k, ResultCode(r))]

\* the handler from the return of client.post up to the rendering call:
\* [next |-> "render"] or [next |-> "done"] with the answer
OnReply(a, k, r) ==
    IF r.t # "response"
    THEN [next |-> "done", outcome |-> OnPostError(k, r.t)]
    ELSE IF r.status # 200
    THEN [next |-> "done", outcome |-> OnHttpError(k, r.status)]
    ELSE IF r.body = "invalid"
    THEN [next |-> "done",
          outcome |-> HTTPError(502, "Invalid JSON response from VSDC API")]
    ELSE IF ControllerQrLogRaises(a, r)
    THEN [next |-> "done", outcome |-> InternalError(k)]
    ELSE IF ResultCode(r) = "000"
    THEN [next |-> "render", outcome |-> NoOutcome]
    ELSE [next |-> "done", outcome |-> OnRejection(a, k, ResultCode(r))]

\* variant: a rendering error falls through to the outer handler
OnRendered_downgrading(ok) ==
    IF ok
    THEN [NoOutcome EXCEPT !.status = 200, !.via = "JSONResponse",
                           !.vsdc_response = TRUE, !.code = "000",
                           !.pdf_generation = TRUE]
    ELSE JSONError(500, "internal_processing_error")

\* the answer after the rendering call returned (ok) or raised
OnRendered(ok) ==
    [NoOutcome EXCEPT !.status = 200, !.via = "JSONResponse",
                      !.vsdc_response = TRUE, !.code = "000",
                      !.pdf_generation = ok, !.pdf_error = ~ok]

\* the answers whose content carries vsdc_payload["invcNo"]
CarriesNumber(o) ==
    /\ o.via = "JSONResponse"
    /\ o.error_type \notin {"internal_processing_error",
                             "internal_credit_note_processing_error"}

\* "invoice_number": vsdc_payload["invcNo"]
WithNumber(o, payload) ==
    IF CarriesNumber(o) THEN [o EXCEPT !.invoice_number = Num(payload.invcNo)]
    ELSE o

(***************************************************************************)
(* backend/services/zoho_custom_field_service.py                           *)
(***************************************************************************)
\* self.required_invoice_fields and self.required_contact_fields, by
\* resourceName
required_invoice_fields ==
    <<"cf_tin", "cf_customer_tin", "cf_purchase_code",
      "cf_seller_company_address", "cf_organizationname">>

required_contact_fields == <<"cf_custtin">>

\* get_required_fields_summary()
get_required_fields_summary ==
    [invoice_fields |-> required_invoice_fields,
     contact_fields |-> required_contact_fields,
     total_fields |-> Len(required_invoice_fields)
                        + Len(required_contact_fields)]

\* the result lists of a module before its first field
NoFields == [created |-> <<>>, existing |-> <<>>, failed |-> <<>>]

\* what the two calls to Zoho can do for one field: the field exists, it
\* is created, the creation returns None, or one of the calls raises
FieldOutcomes ==
    {"exists", "created", "not_created", "check_raises", "create_raises"}

\* variant: a field whose creation returns None is left out of the lists
SetupField_dropping_failed(results, field_name, zoho_org_id, o) ==
    CASE o = "exists" ->
           [results EXCEPT !.existing =
               Append(@, [field_name |-> field_name,
                          status |-> "already_exists"])]
      [] o = "created" ->
           [results EXCEPT !.created =
               Append(@, [field_name |-> field_name, status |-> "created",
                          field_id |-> <<"field", field_name, zoho_org_id>>])]
      [] o = "not_created" -> results
      [] OTHER ->
           [results EXCEPT !.failed =
               Append(@, [field_name |-> field_name, error |-> o])]

\* one iteration of the loop of _setup_module_fields
SetupField(results, field_name, zoho_org_id, o) ==
    CASE o = "exists" ->
           [results EXCEPT !.existing =
               Append(@, [field_name |-> field_name,
                          status |-> "already_exists"])]
      [] o = "created" ->
           [results EXCEPT !.created =
               Append(@, [field_name |-> field_name, status |-> "created",
                          field_id |-> <<"field", field_name, zoho_org_id>>])]
      [] o = "not_created" ->
           [results EXCEPT !.failed =
               Append(@, [field_name |-> field_name,
                          error |-> "Creation failed"])]
      [] OTHER ->
           [results EXCEPT !.failed =
               Append(@, [field_name |-> field_name, error |-> o])]

\* the overall status for a number of failed fields
OverallStatus(total_failed) ==
    IF total_failed = 0 THEN "success"
    ELSE IF total_failed < get_required_fields_summary.total_fields
    THEN "partial_success"
    ELSE "failed"

\* no run of setup_all_custom_fields in progress
NoSetup ==
    [pc |-> "idle", zoho_organization_id |-> "", i |-> 0,
     results |-> NoFields, invoice_fields |-> NoFields,
     contact_fields |-> NoFields, overall_status |-> "", errors |-> <<>>]

(***************************************************************************)
(* Inputs.                                                                 *)
(***************************************************************************)
Organizations == {"org_1", "org_2"}

Apps == {"main", "controller"}
Kinds == {"invoice", "creditnote"}

\* clock readings: datetime.now() as %Y%m%d, as int(%m%d%H%M) and as
\* int(%H%M%S)
Clock == {[ymd |-> 20261104, mdHM |-> 11041230, HMS |-> 123007],
          [ymd |-> 20270101, mdHM |-> 1010000, HMS |-> 5]}

Item(name, description, rate, quantity) ==
    [name |-> name, description |-> description, rate |-> rate,
     quantity |-> quantity]

Widget == Item(Str(<<"W", "i", "d", "g", "e", "t">>), Absent, Num(1000), Num(2))
Service == Item(None, Str(<<"S", "e", "r", "v", "i", "c", "e">>), Num(500), NAbsent)

\* items that are fine in every respect
GoodItems == {Widget, Service}

\* items with a defect in the name, the rate or the quantity
OddItems ==
    { Item(Absent, Absent, Num(1000), Num(1)),
      Item(Str(<<" ">>), Absent, Num(1000), Num(1)),
      Item(Str(<<>>), Str(<<" ">>), Num(1000), Num(1)),
      Item(None, None, Num(1000), Num(1)),
      Item(Str(<<"W">>), Absent, Num(0), Num(1)),
      Item(Str(<<"W">>), Absent, NAbsent, Num(1)),
      Item(Str(<<"W">>), Absent, Num(-5), Num(1)),
      Item(Str(<<"W">>), Absent, NText, Num(1)),
      Item(Str(<<"W">>), Absent, Num(1000), Num(0)),
      Item(Str(<<"W">>), Absent, Num(1000), Num(-1)),
      Item(Str(<<"W">>), Absent, Num(1000), NText) }

ItemSet == GoodItems \cup OddItems

\* line-item lists of at most MaxItems items, at most one of them odd
ItemLists ==
    UNION { { l \in [1..n -> ItemSet] :
                Cardinality({i \in 1..n : l[i] \in OddItems}) <= 1 }
            : n \in 0..MaxItems }

INV_000061 == <<"I", "N", "V", "-", "0", "0", "0", "0", "6", "1">>

INV_2024_001 == <<"I", "N", "V", "-", "2", "0", "2", "4", "-", "0", "0", "1">>

INV_1000000000 ==
    <<"I", "N", "V", "-", "1", "0", "0", "0", "0", "0", "0", "0", "0", "0">>

\* identifiers whose digit runs differ in number, length and position
RunIdentifiers ==
    { INV_2024_001,
      <<"A", "1", "-", "2", "0", "2", "4", "-", "0", "0", "1">>,
      <<"A", "1", "2", "-", "3", "4", "-", "5">>,
      <<"A", "1", "-", "2", "3">>,
      <<"0", "0", "7">>,
      <<" ", "6", "1", " ">> }

InvoiceNumbers ==
    { Absent, Str(<<>>), Str(<<" ">>), Str(INV_000061),
      Str(<<"I", "N", "V", "-", "0", "0", "0">>), Str(<<"I", "N", "V">>),
      Str(INV_1000000000),
      Str(<<"I", "N", "V", "-", "1", "2", "3", "4", "5", "6", "7", "8",
            "9", "0", "1">>),
      Str(<<"6", "1">>) }
    \cup { Str(n) : n \in RunIdentifiers }

CreditNoteNumbers ==
    { Absent, None, Str(<<>>), Str(<<" ">>),
      Str(<<"C", "N", "-", "0", "0", "1">>),
      Str(<<"C", "N", "-", "1">>), Str(<<"C", "N", "-", "0", "0", "0">>),
      Str(<<"C", "N", "-", "1", "2", "3", "4", "5", "6", "7", "8", "9",
            "0", "1">>),
      Str(<<"C", "N">>) }

D_2024_01_15 == <<"2", "0", "2", "4", "-", "0", "1", "-", "1", "5">>

Dates ==
    { Absent, None, Str(<<>>), Str(<<" ">>), Str(D_2024_01_15),
      Str(<<"1", "5", "/", "0", "1", "/", "2", "0", "2", "4">>),
      Str(<<"0", "1", "/", "1", "5", "/", "2", "0", "2", "4">>),
      Str(D_2024_01_15 \o <<" ", "1", "0", ":", "3", "0", ":", "0", "0">>),
      Str(<<"2", "0", "2", "4", "-", "0", "2", "-", "3", "0">>),
      Str(<<"2", "0", "2", "4", "-", "1", "-", "5">>),
      Str(<<"J", "a", "n", " ", "1", "5">>) }

CreditedLists ==
    { [t |-> "absent", refs |-> <<>>], [t |-> "list", refs |-> <<>>],
      [t |-> "list", refs |-> <<Str(INV_000061)>>],
      [t |-> "list", refs |-> <<Absent>>],
      [t |-> "list", refs |-> <<None>>],
      [t |-> "list", refs |-> <<Str(<<"I", "N", "V">>)>>],
      [t |-> "list", refs |-> <<Str(INV_1000000000)>>] }
    \cup { [t |-> "list", refs |-> <<Str(n)>>] : n \in RunIdentifiers }

\* an invoice and a credit note that are fine in every respect
BaseInvoice ==
    [EmptyDoc EXCEPT
       !.invoice_number = Str(INV_000061),
       !.line_items = <<Widget>>,
       !.date = Str(D_2024_01_15)]

BaseCreditNote ==
    [EmptyDoc EXCEPT
       !.creditnote_number = Str(<<"C", "N", "-", "0", "0", "1">>),
       !.line_items = <<Widget>>,
       !.date = Str(D_2024_01_15),
       !.invoices_credited = [t |-> "list", refs |-> <<Str(INV_000061)>>]]

\* custom fields: values of a mapping key, and {api_name, value} lists
Field(api_name, value) == [api_name |-> api_name, value |-> value]

HashVals ==
    { Absent, None, Str(<<>>), Str(<<" ">>), Str(<<"1">>),
      Str(<<" ", "1", " ">>) }

FieldLists(api_name) ==
    { <<>>,
      <<Field(api_name, Str(<<"2">>))>>,
      <<Field(api_name, Str(<<>>))>>,
      <<Field(api_name, Absent)>>,
      <<Field("cf_other", Str(<<"9">>)), Field(api_name, Str(<<" ", "2">>))>> }

CustomerHashVals == { Absent, Str(<<>>), Str(<<"3">>) }

CustomerFieldLists ==
    { <<>>,
      <<Field("cf_custtin", Str(<<"4">>))>>,
      <<Field("cf_other", Str(<<"9">>)), Field("cf_custtin", Str(<<"4", " ">>))>> }

\* the base document with the sources of one identifier varied, and one
\* with every identifier in the mapping and in the list
IdentifierDocs(base) ==
    { [base EXCEPT !.custom_field_hash.cf_tin = h, !.custom_fields = l]
        : h \in HashVals, l \in FieldLists("cf_tin") }
    \cup { [base EXCEPT !.custom_field_hash.cf_purchase_code = h,
                        !.custom_fields = l]
             : h \in HashVals, l \in FieldLists("cf_purchase_code") }
    \cup { [base EXCEPT !.custom_field_hash.cf_customer_tin = h,
                        !.custom_fields = l,
                        !.customer_custom_field_hash.cf_custtin = ch,
                        !.customer_custom_fields = cl]
             : h \in {Absent, Str(<<>>), Str(<<"1">>)},
               l \in {<<>>, <<Field("cf_customer_tin", Str(<<"2">>))>>},
               ch \in CustomerHashVals, cl \in CustomerFieldLists }
    \cup { [base EXCEPT
               !.custom_field_hash =
                   [cf_tin |-> Str(<<"1">>), cf_customer_tin |-> Str(<<"1">>),
                    cf_purchase_code |-> Str(<<"1">>)],
               !.custom_fields =
                   <<Field("cf_tin", Str(<<"2">>)),
                     Field("cf_customer_tin", Str(<<"2">>)),
                     Field("cf_purchase_code", Str(<<"2">>))>>] }

\* documents that differ from the base document in one field
InvoiceDocs ==
    { [BaseInvoice EXCEPT !.invoice_number = n] : n \in InvoiceNumbers }
    \cup { [BaseInvoice EXCEPT !.line_items = l] : l \in ItemLists }
    \cup { [BaseInvoice EXCEPT !.date = d] : d \in Dates }
    \cup { [BaseInvoice EXCEPT !.date = Absent, !.invoice_date = d]
             : d \in {None, Str(D_2024_01_15)} }

CreditNoteDocs ==
    { [BaseCreditNote EXCEPT !.creditnote_number = n] : n \in CreditNoteNumbers }
    \cup { [BaseCreditNote EXCEPT !.line_items = l] : l \in ItemLists }
    \cup { [BaseCreditNote EXCEPT !.date = d] : d \in Dates }
    \cup { [BaseCreditNote EXCEPT !.invoices_credited = c] : c \in CreditedLists }
    \cup { [BaseCreditNote EXCEPT !.creditnote_number = n,
                                  !.invoices_credited = c]
             : n \in {Str(<<"C", "N">>), Str(<<"C", "N", "-", "1">>)},
               c \in {[t |-> "list", refs |-> <<None>>],
                      [t |-> "list", refs |-> <<Str(<<"I", "N", "V">>)>>]} }

\* request bodies: the document under its key, or its fields at top level
Payloads(k) ==
    IF k = "invoice"
    THEN { [key |-> w, doc |-> d] : w \in {"invoice", "none"}, d \in InvoiceDocs }
         \cup { [key |-> "invoice", doc |-> d] : d \in IdentifierDocs(BaseInvoice) }
    ELSE { [key |-> "creditnote", doc |-> d]
             : d \in CreditNoteDocs \cup IdentifierDocs(BaseCreditNote) }
         \cup { [key |-> "none", doc |-> d]
                  : d \in {BaseCreditNote,
                           [BaseCreditNote EXCEPT
                               !.creditnote_number = Absent]} }

ResultCodes ==
    { "000", "881", "882", "883", "884", "885", "886", "901", "910", "921",
      "922", "923", "994", "777", NoCode }

RCPT_20240001 == <<"2", "0", "2", "4", "0", "0", "0", "1">>

\* values of data.rcptNo: missing, null, a string, or a JSON number given
\* by its digits
ReceiptNumbers ==
    { Absent, None, Str(<<>>), Str(<<" ">>), Str(RCPT_20240001),
      Str(<<" ", "7", " ">>), Str(<<"6", "1">>),
      [t |-> "num", s |-> <<"0">>], [t |-> "num", s |-> <<"7">>] }

NoReply ==
    [t |-> "none", status |-> 0, body |-> "", resultCd |-> NoCode,
     data |-> "absent", rcptNo |-> Absent]

\* what client.post can come back with; rcptNo is a key of the data object
Replies ==
    { [NoReply EXCEPT !.t = e] : e \in {"timeout", "connect_error"} }
    \cup { [t |-> "response", status |-> 200, body |-> "json",
            resultCd |-> c, data |-> d, rcptNo |-> Absent]
           : c \in ResultCodes, d \in {"absent", "null", "object"} }
    \cup { [t |-> "response", status |-> 200, body |-> "json",
            resultCd |-> "000", data |-> "object", rcptNo |-> n]
           : n \in ReceiptNumbers }
    \cup { [t |-> "response", status |-> 200, body |-> "invalid",
            resultCd |-> NoCode, data |-> "absent", rcptNo |-> Absent] }
    \cup { [t |-> "response", status |-> st, body |-> "json",
            resultCd |-> c, data |-> "absent", rcptNo |-> Absent]
           : st \in {500, 503}, c \in {"000", NoCode} }

NoZohoPayload == [key |-> "none", doc |-> EmptyDoc]

(***************************************************************************)
(* The state machine of one invocation after the other.                    *)
(***************************************************************************)
NoDelivery ==
    [pc |-> "Idle", app |-> "", kind |-> "", zoho_payload |-> NoZohoPayload,
     vsdc_payload |-> NoPayload]

Deliveries == 1..MaxDeliveries

Init ==
    /\ deliveries = [d \in Deliveries |-> NoDelivery]
    /\ fiscalLog = {}
    /\ setup = NoSetup
    /\ pc = "Idle"
    /\ app = ""
    /\ kind = ""
    /\ zoho_payload = NoZohoPayload
    /\ vsdc_payload = NoPayload
    /\ requests = 0
    /\ reply = NoReply
    /\ renderCalls = 0
    /\ renderResult = "none"
    /\ outcome = NoOutcome

\* zoho_payload = await request.json()
Receive(a, k, p) ==
    /\ pc = "Idle"
    /\ pc' = "Received"
    /\ app' = a
    /\ kind' = k
    /\ zoho_payload' = p
    /\ UNCHANGED <<vsdc_payload, requests, reply, renderCalls, renderResult,
                   outcome>>
    /\ UNCHANGED <<concurrent, setup>>

\* request.json() raises on a body that is not JSON
ReceiveMalformed(a, k) ==
    /\ pc = "Idle"
    /\ pc' = "Done"
    /\ app' = a
    /\ kind' = k
    /\ outcome' = InternalError(k)
    /\ UNCHANGED <<zoho_payload, vsdc_payload, requests, reply, renderCalls,
                   renderResult>>
    /\ UNCHANGED <<concurrent, setup>>

\* the transformer the handler of kind k calls
TransformOf(k, p, now) ==
    IF k = "invoice" THEN transform_zoho_to_vsdc(p, now)
    ELSE transform_zoho_credit_note_to_vsdc(p, now)

\* variant: the handler goes on with whatever the transformer left
Transform_ignoring_failure(now) ==
    /\ pc = "Received"
    /\ vsdc_payload' = TransformOf(kind, zoho_payload, now).payload
    /\ pc' = "Transformed"
    /\ UNCHANGED <<app, kind, zoho_payload, requests, reply, renderCalls,
                   renderResult, outcome>>
    /\ UNCHANGED <<concurrent, setup>>

\* vsdc_payload = payload_transformer.transform_...(zoho_payload)
Transform(now) ==
    /\ pc = "Received"
    /\ LET r == TransformOf(kind, zoho_payload, now)
       IN  IF r.ok
           THEN /\ vsdc_payload' = r.payload
                /\ pc' = "Transformed"
                /\ UNCHANGED outcome
           ELSE /\ outcome' = OnTransformError(kind, r)
                /\ pc' = "Done"
                /\ UNCHANGED vsdc_payload
    /\ UNCHANGED <<app, kind, zoho_payload, requests, reply, renderCalls,
                   renderResult>>
    /\ UNCHANGED <<concurrent, setup>>

\* variant: the request is posted again after an answer came back
Submit_again ==
    /\ pc \in {"Transformed", "Interpreting"}
    /\ requests' = requests + 1
    /\ pc' = "Submitting"
    /\ UNCHANGED <<app, kind, zoho_payload, vsdc_payload, reply, renderCalls,
                   renderResult, outcome>>
    /\ UNCHANGED <<concurrent, setup>>

\* client.post(settings.VSDC_API_URL, json=vsdc_payload, timeout=30.0)
Submit ==
    /\ pc = "Transformed"
    /\ requests' = requests + 1
    /\ pc' = "Submitting"
    /\ UNCHANGED <<app, kind, zoho_payload, vsdc_payload, reply, renderCalls,
                   renderResult, outcome>>
    /\ UNCHANGED <<concurrent, setup>>

\* the fiscal endpoint answers, or the transport fails
Respond(r) ==
    /\ pc = "Submitting"
    /\ reply' = r
    /\ pc' = "Interpreting"
    /\ UNCHANGED <<app, kind, zoho_payload, vsdc_payload, requests,
                   renderCalls, renderResult, outcome>>
    /\ UNCHANGED <<concurrent, setup>>

\* variant: a timeout or a connection error is followed by another attempt
Interpret_retrying ==
    /\ pc = "Interpreting"
    /\ IF reply.t \in {"timeout", "connect_error"}
       THEN /\ pc' = "Transformed"
            /\ UNCHANGED <<outcome, renderCalls>>
       ELSE LET h == OnReply(app, kind, reply)
            IN  IF h.next = "render"
                THEN /\ renderCalls' = renderCalls + 1
                     /\ pc' = "Rendering"
                     /\ UNCHANGED outcome
                ELSE /\ outcome' = WithNumber(h.outcome, vsdc_payload)
                     /\ pc' = "Done"
                     /\ UNCHANGED renderCalls
    /\ UNCHANGED <<app, kind, zoho_payload, vsdc_payload, requests, reply,
                   renderResult>>
    /\ UNCHANGED <<concurrent, setup>>

\* the handler resumes after client.post
Interpret ==
    /\ pc = "Interpreting"
    /\ LET h == OnReply(app, kind, reply)
       IN  IF h.next = "render"
           THEN /\ renderCalls' = renderCalls + 1
                /\ pc' = "Rendering"
                /\ UNCHANGED outcome
           ELSE /\ outcome' = WithNumber(h.outcome, vsdc_payload)
                /\ pc' = "Done"
                /\ UNCHANGED renderCalls
    /\ UNCHANGED <<app, kind, zoho_payload, vsdc_payload, requests, reply,
                   renderResult>>
    /\ UNCHANGED <<concurrent, setup>>

\* generate_advanced_pdf / generate_credit_note_pdf returns (ok) or raises;
\* it raises on a response whose data is null; pdf_result["invoice_number"]
\* is the invoice_number of the Invoice model
Rendered(ok, now) ==
    /\ pc = "Rendering"
    /\ ok => reply.data # "null"
    /\ renderResult' = (IF ok THEN "returned" ELSE "raised")
    /\ outcome' =
         [WithNumber(OnRendered(ok), vsdc_payload)
            EXCEPT !.pdf_invoice_number =
                     IF ok
                     THEN extract_receipt_number_safely(reply, zoho_payload,
                                                        vsdc_payload, now)
                     ELSE <<>>]
    /\ pc' = "Done"
    /\ UNCHANGED <<app, kind, zoho_payload, vsdc_payload, requests, reply,
                   renderCalls>>
    /\ UNCHANGED <<concurrent, setup>>

\* the answer is sent; the next request starts from scratch
Return ==
    /\ pc = "Done"
    /\ pc' = "Idle"
    /\ app' = ""
    /\ kind' = ""
    /\ zoho_payload' = NoZohoPayload
    /\ vsdc_payload' = NoPayload
    /\ requests' = 0
    /\ reply' = NoReply
    /\ renderCalls' = 0
    /\ renderResult' = "none"
    /\ outcome' = NoOutcome
    /\ UNCHANGED <<concurrent, setup>>

Next ==
    \/ \E a \in Apps, k \in Kinds : \E p \in Payloads(k) : Receive(a, k, p)
    \/ \E a \in Apps, k \in Kinds : ReceiveMalformed(a, k)
    \/ \E now \in Clock : Transform(now)
    \/ Submit
    \/ \E r \in Replies : Respond(r)
    \/ Interpret
    \/ \E ok \in BOOLEAN, now \in Clock : Rendered(ok, now)
    \/ Return

Spec == Init /\ [][Next]_vars

(***************************************************************************)
(* Webhook deliveries in flight together.  Each delivery is one run of a   *)
(* handler up to the answer of the fiscal endpoint; the handlers share no  *)
(* state, and the fiscal endpoint sees every request that is posted.       *)
(***************************************************************************)
\* request bodies of the deliveries: a sound document, one whose number
\* comes from the clock, and one the transformer rejects, of each kind
DeliveryBodies(k) ==
    IF k = "invoice"
    THEN { [key |-> "invoice", doc |-> d]
             : d \in {BaseInvoice,
                      [BaseInvoice EXCEPT !.invoice_number = Str(<<"I", "N", "V">>)],
                      [BaseInvoice EXCEPT !.line_items = <<>>]} }
    ELSE { [key |-> "creditnote", doc |-> d]
             : d \in {BaseCreditNote,
                      [BaseCreditNote EXCEPT !.creditnote_number = None],
                      [BaseCreditNote EXCEPT !.date = None]} }

\* zoho_payload = await request.json()
Deliver(d, a, k, p) ==
    /\ deliveries[d].pc = "Idle"
    /\ deliveries' =
         [deliveries EXCEPT ![d] = [NoDelivery EXCEPT !.pc = "Received",
                                                      !.app = a, !.kind = k,
                                                      !.zoho_payload = p]]
    /\ UNCHANGED <<fiscalLog, invocation, setup>>

\* vsdc_payload = payload_transformer.transform_...(zoho_payload)
DeliveryTransform(d, now) ==
    /\ deliveries[d].pc = "Received"
    /\ LET r == TransformOf(deliveries[d].kind, deliveries[d].zoho_payload, now)
       IN  deliveries' =
             [deliveries EXCEPT ![d] =
                 IF r.ok
                 THEN [@ EXCEPT !.pc = "Transformed", !.vsdc_payload = r.payload]
                 ELSE [@ EXCEPT !.pc = "Done"]]
    /\ UNCHANGED <<fiscalLog, invocation, setup>>

\* variant: a payload the fiscal endpoint has already been sent is not
\* posted again
DeliverySubmit_deduplicating(d) ==
    /\ deliveries[d].pc = "Transformed"
    /\ IF \E e \in fiscalLog : e.payload = deliveries[d].vsdc_payload
       THEN /\ deliveries' = [deliveries EXCEPT ![d].pc = "Done"]
            /\ UNCHANGED fiscalLog
       ELSE /\ deliveries' = [deliveries EXCEPT ![d].pc = "Submitting"]
            /\ fiscalLog' =
                 fiscalLog \cup {[delivery |-> d,
                                  payload |-> deliveries[d].vsdc_payload]}
    /\ UNCHANGED <<invocation, setup>>

\* client.post(settings.VSDC_API_URL, json=vsdc_payload, timeout=30.0)
DeliverySubmit(d) ==
    /\ deliveries[d].pc = "Transformed"
    /\ deliveries' = [deliveries EXCEPT ![d].pc = "Submitting"]
    /\ fiscalLog' =
         fiscalLog \cup {[delivery |-> d,
                          payload |-> deliveries[d].vsdc_payload]}
    /\ UNCHANGED <<invocation, setup>>

\* client.post returns or raises, and the handler answers its caller
DeliveryAnswered(d) ==
    /\ deliveries[d].pc = "Submitting"
    /\ deliveries' = [deliveries EXCEPT ![d].pc = "Done"]
    /\ UNCHANGED <<fiscalLog, invocation, setup>>

DeliveriesNext ==
    \/ \E d \in Deliveries, a \in Apps, k \in Kinds :
          \E p \in DeliveryBodies(k) : Deliver(d, a, k, p)
    \/ \E d \in Deliveries, now \in Clock : DeliveryTransform(d, now)
    \/ \E d \in Deliveries : DeliverySubmit(d)
    \/ \E d \in Deliveries : DeliveryAnswered(d)

DeliveriesSpec == Init /\ [][DeliveriesNext]_vars

(***************************************************************************)
(* setup_all_custom_fields, one field of a module after the other.         *)
(***************************************************************************)
\* setup_all_custom_fields(zoho_org_id) builds its results and enters
\* _setup_module_fields for the invoice fields
SetupStart(zoho_org_id) ==
    /\ setup.pc = "idle"
    /\ setup' = [NoSetup EXCEPT !.pc = "invoices",
                                !.zoho_organization_id = zoho_org_id,
                                !.i = 1, !.overall_status = "success"]
    /\ UNCHANGED <<invocation, concurrent>>

\* the required fields of the module being set up
ModuleFields ==
    IF setup.pc = "invoices" THEN required_invoice_fields
    ELSE required_contact_fields

\* one field of the module; after the last one the lists of the module
\* are stored and the next module, or the status, follows
SetupNextField(o) ==
    /\ setup.pc \in {"invoices", "contacts"}
    /\ LET results == SetupField(setup.results, ModuleFields[setup.i],
                                 setup.zoho_organization_id, o)
       IN  setup' =
             IF setup.i < Len(ModuleFields)
             THEN [setup EXCEPT !.results = results, !.i = @ + 1]
             ELSE IF setup.pc = "invoices"
             THEN [setup EXCEPT !.invoice_fields = results,
                                !.results = NoFields, !.i = 1,
                                !.pc = "contacts"]
             ELSE [setup EXCEPT !.contact_fields = results,
                                !.results = NoFields, !.i = 0,
                                !.pc = "status"]
    /\ UNCHANGED <<invocation, concurrent>>

\* the overall status is determined and the results are returned
SetupFinish ==
    /\ setup.pc = "status"
    /\ LET total_failed == Len(setup.invoice_fields.failed)
                             + Len(setup.contact_fields.failed)
       IN  setup' =
             [setup EXCEPT !.pc = "returned",
                           !.overall_status = OverallStatus(total_failed),
                           !.errors = IF total_failed > 0
                                      THEN <<[failed |-> total_failed]>>
                                      ELSE <<>>]
    /\ UNCHANGED <<invocation, concurrent>>

\* the caller has the results; the next run starts from scratch
SetupReturn ==
    /\ setup.pc = "returned"
    /\ setup' = NoSetup
    /\ UNCHANGED <<invocation, concurrent>>

SetupNext ==
    \/ \E zoho_org_id \in Organizations : SetupStart(zoho_org_id)
    \/ \E o \in FieldOutcomes : SetupNextField(o)
    \/ SetupFinish
    \/ SetupReturn

SetupSpec == Init /\ [][SetupNext]_vars

(***************************************************************************)
(* The outcomes of the specification, read off the answer of a handler.    *)
(***************************************************************************)
Succeeded(o) == o.status = 200 /\ o.vsdc_response

Rejected(o) ==
    o.error_type \in {"vsdc_business_logic_error",
                      "vsdc_credit_note_business_logic_error"}

TransformationFailure(o) ==
    \/ o.via = "HTTPException"
       /\ o.detail \in {"Invalid Zoho payload", "Error processing payload",
                        "Failed to transform credit note"}
    \/ o.error_type \in {"credit_note_transformation_error",
                         "internal_transformation_error"}

\* the kind of transport failure an answer reports, "" when it reports none
TransportFailureKind(o) ==
    CASE o.error_type = "vsdc_timeout_error" -> "timeout"
      [] o.error_type = "vsdc_connection_error" -> "connection"
      [] o.error_type \in {"vsdc_communication_error",
                           "vsdc_credit_note_communication_error"} -> "http"
      [] o.via = "HTTPException"
         /\ o.detail = "Invalid JSON response from VSDC API"
           -> "malformed-response"
      [] OTHER -> ""

\* the request body was parsed into zoho_payload
Parsed == zoho_payload # NoZohoPayload

\* the transformer rejects the parsed body
TransformFails ==
    \A now \in Clock : ~TransformOf(kind, zoho_payload, now).ok

(***************************************************************************)
(* Properties.                                                             *)
(***************************************************************************)
\* C1: a request is sent to the fiscal endpoint only with a payload the
\* transformer produced from the received body; when the transformer
\* rejects the body the invocation ends in a transformation failure with no
\* request sent and no rendering call.
C1_SubmitOnlyAfterTransform ==
    /\ requests > 0 =>
         \E now \in Clock :
            /\ TransformOf(kind, zoho_payload, now).ok
            /\ TransformOf(kind, zoho_payload, now).payload = vsdc_payload
    /\ (Parsed /\ TransformFails /\ pc # "Received") =>
         /\ pc = "Done"
         /\ TransformationFailure(outcome)
         /\ requests = 0
         /\ renderCalls = 0

C1_Witness ==
    /\ pc = "Done"
    /\ Parsed
    /\ TransformFails
    /\ TransformationFailure(outcome)
    /\ kind = "creditnote"

\* C2: the rendering collaborator is called only when the fiscal endpoint
\* answered HTTP 200 with a JSON body whose result code is "000".
C2_RenderOnlyOnSuccess ==
    renderCalls > 0 =>
        /\ reply.t = "response"
        /\ reply.status = 200
        /\ reply.body = "json"
        /\ reply.resultCd = "000"

C2_Witness == pc = "Rendering" /\ renderCalls = 1

\* C3: when the rendering collaborator raises after a "000" answer, the
\* invocation still answers 200 with the fiscal response, annotated with
\* the rendering error; it is neither a rejection nor a failure.
C3_RenderFailureKeepsSuccess ==
    renderResult = "raised" =>
        /\ pc = "Done"
        /\ Succeeded(outcome)
        /\ outcome.pdf_error
        /\ ~Rejected(outcome)
        /\ outcome.error_type = ""

C3_Witness ==
    /\ renderResult = "raised"
    /\ kind = "creditnote"
    /\ outcome.status = 200

\* C4: at most one request is sent to the fiscal endpoint in an invocation,
\* whatever its outcome.
C4_AtMostOneRequest == requests <= 1

C4_Witness ==
    /\ pc = "Done"
    /\ requests = 1
    /\ reply.t = "timeout"

\* the handler parsed a 200 answer and reached the result-code check
Classified ==
    /\ reply.t = "response"
    /\ reply.status = 200
    /\ reply.body = "json"
    /\ ~ControllerQrLogRaises(app, reply)

\* C5: a 200 answer with result code "000" is a success; with any other
\* result code, or none, it is a business rejection whose outward status is
\* the table entry of the code ("881" gives 400), or 422 for a code the
\* table lacks.
C5_ResultCodeClassification ==
    (pc = "Done" /\ reply.t = "response" /\ reply.status = 200
       /\ reply.body = "json") =>
        LET c == reply.resultCd
            table == error_mapping(app, kind)
        IN  IF c = "000" THEN Succeeded(outcome)
            ELSE /\ Rejected(outcome)
                 /\ ~Succeeded(outcome)
                 /\ outcome.status = (IF c \in DOMAIN table THEN table[c]
                                      ELSE 422)
                 /\ c = "881" => outcome.status = 400

C7_TransportFailureIdentified ==
    (pc = "Done" /\ reply.t \in {"timeout", "connect_error"}) =>
        /\ TransportFailureKind(outcome)
             = (IF reply.t = "timeout" THEN "timeout" ELSE "connection")
        /\ outcome.error_type \notin
             {"internal_processing_error",
              "internal_credit_note_processing_error"}

\* C8: a 200 answer whose body is not JSON ends as a malformed-response
\* failure, and an answer with another status ends as an HTTP failure that
\* carries the status; no result code is read in either case and the
\* rendering collaborator is not called.
C8_MalformedAndHttpFailures ==
    (reply.t = "response" /\ pc # "Interpreting") =>
        /\ (reply.status = 200 /\ reply.body = "invalid") =>
             /\ pc = "Done"
             /\ TransportFailureKind(outcome) = "malformed-response"
             /\ outcome.status = 502
             /\ outcome.code = ""
             /\ renderCalls = 0
        /\ reply.status # 200 =>
             /\ pc = "Done"
             /\ TransportFailureKind(outcome) = "http"
             /\ outcome.http_status = reply.status
             /\ outcome.code = ""
             /\ ~Succeeded(outcome)
             /\ renderCalls = 0

C8_Witness ==
    /\ pc = "Done"
    /\ reply.t = "response"
    /\ reply.status = 500
    /\ reply.resultCd = "000"
    /\ outcome.http_status = 500

\* a string that is present and not blank
NonBlank(v) == v.t = "str" /\ strip(v.s) # <<>>

\* the identifier is missing, empty or blank, there is no line item, some
\* item has neither a name nor a description, or some item has a missing
\* or non-positive rate
C9_Defective(d) ==
    \/ ~NonBlank(d.invoice_number)
    \/ d.line_items = <<>>
    \/ \E i \in 1..Len(d.line_items) :
          \/ ~NonBlank(d.line_items[i].name)
             /\ ~NonBlank(d.line_items[i].description)
          \/ d.line_items[i].rate.t \in {"absent", "none"}
          \/ d.line_items[i].rate.t = "num" /\ d.line_items[i].rate.n <= 0

\* C9: an invoice with such a defect is answered 400 by the transformer's
\* error and nothing is submitted.
C9_InvoiceValidation ==
    (kind = "invoice" /\ Parsed /\ pc # "Received"
       /\ C9_Defective(zoho_payload.doc)) =>
        /\ pc = "Done"
        /\ TransformationFailure(outcome)
        /\ outcome.status = 400
        /\ requests = 0
        /\ vsdc_payload = NoPayload

C9_Witness ==
    /\ pc = "Done"
    /\ kind = "invoice"
    /\ Parsed
    /\ NonBlank(zoho_payload.doc.invoice_number)
    /\ Len(zoho_payload.doc.line_items) = 2
    /\ zoho_payload.doc.line_items[2].rate = Num(-5)
    /\ outcome.status = 400

\* some line item of the document has a quantity <= 0
HasNonPositiveQuantity(d) ==
    \E i \in 1..Len(d.line_items) :
        d.line_items[i].quantity.t = "num" /\ d.line_items[i].quantity.n <= 0

\* C10: a document with a line item of quantity <= 0 fails in the
\* transformer, and no fiscal payload holds an item of quantity <= 0.
C10_QuantityValidated ==
    /\ (Parsed /\ pc # "Received"
          /\ HasNonPositiveQuantity(zoho_payload.doc)) =>
         (pc = "Done" /\ TransformationFailure(outcome) /\ requests = 0)
    /\ \A i \in 1..Len(vsdc_payload.itemList) :
          vsdc_payload.itemList[i].qty > 0

\* the transformer returned a fiscal payload
Produced == vsdc_payload # NoPayload

\* the identifier is empty or blank, there is no line item, or some item
\* has a rate <= 0
C11_Defective(d) ==
    \/ d.creditnote_number.t = "str" /\ strip(d.creditnote_number.s) = <<>>
    \/ d.line_items = <<>>
    \/ \E i \in 1..Len(d.line_items) :
          d.line_items[i].rate.t = "num" /\ d.line_items[i].rate.n <= 0

\* C11: a credit note with such a defect fails in the transformer with a
\* validation error and is not submitted.
C11_CreditNoteValidation ==
    (kind = "creditnote" /\ zoho_payload.key = "creditnote"
       /\ pc # "Received" /\ C11_Defective(zoho_payload.doc)) =>
        /\ pc = "Done"
        /\ TransformationFailure(outcome)
        /\ requests = 0
        /\ ~Produced

\* C12: the document number of a produced fiscal payload lies in
\* 0..999999999, and an invoice number resolved above 999999999 is replaced
\* by the integer its last nine digits form.
C12_DocumentNumberRange ==
    Produced =>
        /\ vsdc_payload.invcNo \in 0..999999999
        /\ kind = "invoice" =>
             \A now \in Clock :
                LET d == StripLeadingZeros(
                            extract_invoice_number_digits(
                                zoho_payload.doc.invoice_number.s, now))
                IN  Len(d) > 9 =>
                      vsdc_payload.invcNo = int(SubSeq(d, Len(d) - 8, Len(d)))

C12_Witness ==
    /\ Produced
    /\ kind = "invoice"
    /\ Len(zoho_payload.doc.invoice_number.s) = 15
    /\ vsdc_payload.invcNo = 345678901

\* C13: a produced fiscal payload, and so every payload that is submitted,
\* has a document number >= 1.
C13_PositiveDocumentNumber ==
    /\ Produced => vsdc_payload.invcNo >= 1
    /\ requests > 0 => vsdc_payload.invcNo >= 1

\* C14: the document number an invocation produced is the one the same
\* body yields at any other clock reading.
C14_DocumentNumberDeterministic ==
    Produced =>
        \A now \in Clock :
            /\ TransformOf(kind, zoho_payload, now).ok
            /\ TransformOf(kind, zoho_payload, now).payload.invcNo
                 = vsdc_payload.invcNo

\* the line items the transformer of this invocation reads
SourceItems ==
    IF kind = "creditnote" /\ zoho_payload.key # "creditnote" THEN <<>>
    ELSE zoho_payload.doc.line_items

\* the quantity of a line item, 1 when it has none
QuantityOf(item) == IF item.quantity.t = "absent" THEN 1 ELSE item.quantity.n

\* C15: for a line item of positive rate and quantity the fiscal item's
\* taxable amount is rate * quantity and its tax amount is
\* round(taxable * 18 / 118, 2); one item of rate 1000 and quantity 2 gives
\* taxblAmtB = 2000.00 and taxAmtB = 305.08.
C15_ItemAmounts ==
    Produced =>
        /\ Len(vsdc_payload.itemList) = Len(SourceItems)
        /\ \A i \in 1..Len(SourceItems) :
              LET item == SourceItems[i]
                  out == vsdc_payload.itemList[i]
              IN  (item.rate.n > 0 /\ QuantityOf(item) > 0) =>
                     /\ out.taxblAmt = 100 * item.rate.n * QuantityOf(item)
                     /\ out.taxAmt = RoundDiv(18 * out.taxblAmt, 118)
        /\ SourceItems = <<Widget>> =>
              /\ vsdc_payload.taxblAmtB = 200000
              /\ vsdc_payload.taxAmtB = 30508

C15_Witness ==
    /\ Produced
    /\ kind = "invoice"
    /\ SourceItems = <<Widget>>
    /\ vsdc_payload.itemList[1].taxAmt = 30508

\* the sum of field f over the first n items of l
RECURSIVE TotalUpTo(_, _, _)
TotalUpTo(l, f, n) == IF n = 0 THEN 0 ELSE TotalUpTo(l, f, n - 1) + l[n][f]

\* C16: the grand totals of a produced fiscal payload are the sums of the
\* items' taxable and tax amounts, and equal the accumulators of bucket B.
C16_TotalsAreSums ==
    Produced =>
        LET l == vsdc_payload.itemList
        IN  /\ vsdc_payload.totTaxblAmt = TotalUpTo(l, "taxblAmt", Len(l))
            /\ vsdc_payload.totTaxAmt = TotalUpTo(l, "taxAmt", Len(l))
            /\ vsdc_payload.totTaxblAmt = vsdc_payload.taxblAmtB
            /\ vsdc_payload.totTaxAmt = vsdc_payload.taxAmtB

C16_Witness ==
    /\ Produced
    /\ kind = "creditnote"
    /\ SourceItems = <<Widget, Service>>
    /\ vsdc_payload.totTaxblAmt = 250000
    /\ vsdc_payload.totTaxAmt = 38135

\* C17: in a produced fiscal payload the tax amount of each bucket is
\* round(taxable amount * rate / 100, 2); for bucket B,
\* taxAmtB = round(taxblAmtB * 18 / 100, 2).
C17_BucketTaxFromRate ==
    Produced =>
        LET b == vsdc_payload.buckets
        IN  /\ vsdc_payload.taxAmtB
                 = RoundDiv(vsdc_payload.taxblAmtB * b.taxRtB, 100)
            /\ b.taxAmtA = RoundDiv(b.taxblAmtA * b.taxRtA, 100)
            /\ b.taxAmtC = RoundDiv(b.taxblAmtC * b.taxRtC, 100)
            /\ b.taxAmtD = RoundDiv(b.taxblAmtD * b.taxRtD, 100)

\* the sum over the first n items of l of the tax contained in the item's
\* tax-inclusive taxable amount at rate `rate`
RECURSIVE InclusiveTaxUpTo(_, _, _)
InclusiveTaxUpTo(l, rate, n) ==
    IF n = 0 THEN 0
    ELSE InclusiveTaxUpTo(l, rate, n - 1)
           + RoundDiv(l[n].taxblAmt * rate, 100 + rate)

\* C17 as amended: the tax amount of bucket B is the sum over the items of
\* round(item taxable amount * 18 / 118, 2), which for a single item is
\* round(taxblAmtB * 18 / 118, 2); the buckets A, C and D hold 0.
C17_BucketTaxInclusive ==
    Produced =>
        LET b == vsdc_payload.buckets
            l == vsdc_payload.itemList
        IN  /\ b.taxRtB = 18
            /\ vsdc_payload.taxAmtB = InclusiveTaxUpTo(l, b.taxRtB, Len(l))
            /\ Len(l) = 1 =>
                 vsdc_payload.taxAmtB
                   = RoundDiv(vsdc_payload.taxblAmtB * 18, 118)
            /\ b.taxblAmtA = 0 /\ b.taxAmtA = 0
            /\ b.taxblAmtC = 0 /\ b.taxAmtC = 0
            /\ b.taxblAmtD = 0 /\ b.taxAmtD = 0

C17_Witness ==
    /\ Produced
    /\ kind = "invoice"
    /\ Len(vsdc_payload.itemList) = 2
    /\ vsdc_payload.taxblAmtB = 250000
    /\ vsdc_payload.taxAmtB = 38135

\* the document the transformer of this invocation reads
SourceDoc ==
    IF kind = "creditnote" /\ zoho_payload.key # "creditnote" THEN EmptyDoc
    ELSE zoho_payload.doc

\* the value a list of {api_name, value} pairs gives for a name
RECURSIVE ListValue(_, _, _)
ListValue(fields, api_name, i) ==
    IF i > Len(fields) THEN None
    ELSE IF fields[i].api_name = api_name /\ fields[i].value.t = "str"
    THEN fields[i].value
    ELSE ListValue(fields, api_name, i + 1)

\* the first non-empty value of a sequence of sources, None without one
RECURSIVE FirstNonEmpty(_, _)
FirstNonEmpty(sources, i) ==
    IF i > Len(sources) THEN None
    ELSE IF sources[i].t = "str" /\ sources[i].s # <<>> THEN sources[i]
    ELSE FirstNonEmpty(sources, i + 1)

\* `out` is the trimmed first non-empty value of the sources, and absent
\* (null or empty) when no source has one
ResolvedFrom(out, sources) ==
    LET v == FirstNonEmpty(sources, 1)
    IN  IF v.t = "str" /\ strip(v.s) # <<>> THEN out = Str(strip(v.s))
        ELSE out.t # "str" \/ out.s = <<>>

\* C18: in a fiscal payload produced from an invoice, the business TIN and
\* the purchase code come from the custom-field mapping, else from the
\* custom-field list; the customer TIN comes from the mapping, else the
\* list, else the customer-scoped mapping, else the customer-scoped list;
\* each is the first non-empty value in that order.
C18_IdentifierPriority ==
    (Produced /\ kind = "invoice") =>
        LET d == SourceDoc
            h == d.custom_field_hash
        IN  /\ ResolvedFrom(vsdc_payload.tin,
                  <<h.cf_tin, ListValue(d.custom_fields, "cf_tin", 1)>>)
            /\ ResolvedFrom(vsdc_payload.prcOrdCd,
                  <<h.cf_purchase_code,
                    ListValue(d.custom_fields, "cf_purchase_code", 1)>>)
            /\ ResolvedFrom(vsdc_payload.custTin,
                  <<h.cf_customer_tin,
                    ListValue(d.custom_fields, "cf_customer_tin", 1),
                    d.customer_custom_field_hash.cf_custtin,
                    ListValue(d.customer_custom_fields, "cf_custtin", 1)>>)

C18_Witness ==
    /\ Produced
    /\ kind = "invoice"
    /\ SourceDoc.custom_field_hash.cf_customer_tin = Str(<<"1">>)
    /\ SourceDoc.custom_fields # <<>>
    /\ SourceDoc.customer_custom_field_hash.cf_custtin = Str(<<"3">>)
    /\ SourceDoc.customer_custom_fields # <<>>
    /\ vsdc_payload.custTin = Str(<<"1">>)

\* C19: when neither the custom-field mapping nor the custom-field list
\* has a business TIN, the business TIN of a produced fiscal payload is the
\* default and is neither null nor empty.
C19_BusinessTinDefault ==
    (Produced
       /\ FirstNonEmpty(<<SourceDoc.custom_field_hash.cf_tin,
                          ListValue(SourceDoc.custom_fields, "cf_tin", 1)>>,
                        1) = None) =>
        /\ vsdc_payload.tin.t = "str"
        /\ vsdc_payload.tin.s # <<>>
        /\ vsdc_payload.tin
             = Str(<<"0", "0", "0", "0", "0", "0", "0", "0", "0">>)

\* the document date the transformer of this invocation reads
SourceDate ==
    IF kind = "invoice" /\ SourceDoc.date.t = "absent"
    THEN SourceDoc.invoice_date
    ELSE SourceDoc.date

\* the date is missing, or neither it nor its first word matches one of
\* the accepted formats
MissingOrUnmatched(v) ==
    \/ v.t # "str"
    \/ v.s = <<>>
    \/ \A i \in 1..Len(DateFormats) :
          /\ ~strptime(v.s, DateFormats[i]).ok
          /\ split(v.s) # <<>> => ~strptime(split(v.s)[1], DateFormats[i]).ok

\* the body transforms when its date is replaced by 2024-01-15
FineButForDate ==
    \E now \in Clock :
        TransformOf(kind,
                    [zoho_payload EXCEPT !.doc.date = Str(D_2024_01_15)],
                    now).ok

\* C20: a document date that is missing or matches no accepted format does
\* not make the transformation fail, its salesDt is the current date, and
\* every produced salesDt is a string of eight digits.
C20_DateFallback ==
    /\ (pc \notin {"Idle", "Received"} /\ Parsed
          /\ MissingOrUnmatched(SourceDate) /\ FineButForDate) =>
         /\ Produced
         /\ \E now \in Clock : vsdc_payload.salesDt = Today(now)
    /\ Produced => IsDigits(vsdc_payload.salesDt, 8, 8)

\* the receipt number of the fiscal response is present and non-empty
HasReceiptNumber(r) ==
    /\ r.data = "object"
    /\ \/ r.rcptNo.t = "str" /\ r.rcptNo.s # <<>>
       \/ r.rcptNo.t = "num"

\* the candidates after the receipt number, in their order: the document
\* number of the submission, the identifier of the source document, a
\* generated fallback
NextCandidate(now) ==
    IF vsdc_payload.invcNo # 0 THEN str(vsdc_payload.invcNo)
    ELSE IF NonBlank(OriginalNumber(zoho_payload))
    THEN strip(OriginalNumber(zoho_payload).s)
    ELSE <<"R", "C", "P", "-">> \o str(now.ymd) \o ZeroPad(str(now.HMS), 6)

\* C21: after a success, a present and non-empty receipt number of the
\* fiscal response is the document number of the rendered receipt and the
\* one the answer reports; without one, the rendered receipt carries the
\* next candidate in the order invcNo, source identifier, generated
\* fallback.
C21_ReceiptNumberSupersedes ==
    (pc = "Done" /\ Succeeded(outcome) /\ reply.data # "null") =>
        IF HasReceiptNumber(reply)
        THEN /\ outcome.pdf_generation =>
                  outcome.pdf_invoice_number = strip(reply.rcptNo.s)
             /\ outcome.invoice_number.t = "num"
             /\ str(outcome.invoice_number.n) = strip(reply.rcptNo.s)
        ELSE outcome.pdf_generation =>
                 \E now \in Clock :
                     outcome.pdf_invoice_number = NextCandidate(now)

\* delivery d has posted its request
Posted(d) == deliveries[d].pc \in {"Submitting", "Done"}
                /\ deliveries[d].vsdc_payload # NoPayload

\* the requests the fiscal endpoint received for the body p of kind k
SubmissionsFor(k, p) ==
    { e \in fiscalLog : /\ deliveries[e.delivery].kind = k
                        /\ deliveries[e.delivery].zoho_payload = p }

\* C22: every delivery that got through the transformer posts its own
\* request, carrying the payload it transformed itself, whatever other
\* deliveries have posted; two deliveries of the same body, together or
\* one after the other, leave two requests at the fiscal endpoint.
C22_DuplicatesNotDeduplicated ==
    /\ \A d \in Deliveries :
          Posted(d) =>
             /\ [delivery |-> d, payload |-> deliveries[d].vsdc_payload]
                    \in fiscalLog
             /\ \E now \in Clock :
                    TransformOf(deliveries[d].kind, deliveries[d].zoho_payload,
                                now).payload = deliveries[d].vsdc_payload
    /\ \A d1, d2 \in Deliveries :
          (d1 # d2 /\ Posted(d1) /\ Posted(d2)
             /\ deliveries[d1].kind = deliveries[d2].kind
             /\ deliveries[d1].zoho_payload = deliveries[d2].zoho_payload) =>
            Cardinality(SubmissionsFor(deliveries[d1].kind,
                                       deliveries[d1].zoho_payload)) >= 2

\* two deliveries of the sound invoice, the second received while the
\* first waits for the fiscal endpoint, both posted with number 61
C22_Witness ==
    /\ deliveries[1].pc = "Submitting"
    /\ deliveries[2].pc = "Submitting"
    /\ deliveries[1].zoho_payload = [key |-> "invoice", doc |-> BaseInvoice]
    /\ deliveries[2].zoho_payload = deliveries[1].zoho_payload
    /\ Cardinality(fiscalLog) = 2
    /\ \A e \in fiscalLog : e.payload.invcNo = 61

\* the body of this invocation with its fields nested under the key of
\* the kind
Nested ==
    [key |-> IF kind = "invoice" THEN "invoice" ELSE "creditnote",
     doc |-> zoho_payload.doc]

\* C23: a body that carries the document fields at top level is
\* transformed into the fiscal payload the same fields give when nested
\* under "invoice" or "creditnote" (at some clock reading), and is rejected
\* only if the nested body is.
C23_TopLevelAsNested ==
    (Parsed /\ zoho_payload.key = "none" /\ pc \notin {"Idle", "Received"}) =>
        IF Produced
        THEN \E now \in Clock :
                /\ TransformOf(kind, Nested, now).ok
                /\ TransformOf(kind, Nested, now).payload = vsdc_payload
        ELSE \A now \in Clock : ~TransformOf(kind, Nested, now).ok

\* the number of entries of a result list that name the field
RECURSIVE Entries(_, _)
Entries(list, field_name) ==
    IF list = <<>> THEN 0
    ELSE (IF Head(list).field_name = field_name THEN 1 ELSE 0)
           + Entries(Tail(list), field_name)

\* the number of entries of the three lists of a module that name the field
Accounted(lists, field_name) ==
    Entries(lists.created, field_name) + Entries(lists.existing, field_name)
        + Entries(lists.failed, field_name)

Processed(lists) ==
    Len(lists.created) + Len(lists.existing) + Len(lists.failed)

\* C24: when setup_all_custom_fields has returned, each of the five
\* invoice fields and the contact field has exactly one entry in the
\* created, existing and failed lists of its module, the entries number
\* total_fields of get_required_fields_summary, and without a failed field
\* the overall status is "success".
C24_EveryFieldAccounted ==
    setup.pc = "returned" =>
        /\ Len(required_invoice_fields) = 5
        /\ Len(required_contact_fields) = 1
        /\ \A i \in 1..Len(required_invoice_fields) :
              Accounted(setup.invoice_fields, required_invoice_fields[i]) = 1
        /\ \A i \in 1..Len(required_contact_fields) :
              Accounted(setup.contact_fields, required_contact_fields[i]) = 1
        /\ Processed(setup.invoice_fields) + Processed(setup.contact_fields)
              = get_required_fields_summary.total_fields
        /\ (setup.invoice_fields.failed = <<>>
              /\ setup.contact_fields.failed = <<>>) =>
             setup.overall_status = "success"

\* a run in which one field existed, one could not be created and the
\* others were created
C24_Witness ==
    /\ setup.pc = "returned"
    /\ Len(setup.invoice_fields.existing) = 1
    /\ Len(setup.invoice_fields.failed) = 1
    /\ Len(setup.invoice_fields.created) = 3
    /\ Len(setup.contact_fields.created) = 1
    /\ setup.overall_status = "partial_success"

\* the maximal digit runs of s, as pairs of their first and last position
DigitRuns(s) ==
    { r \in (1..Len(s)) \X (1..Len(s)) :
        /\ r[1] <= r[2]
        /\ \A i \in r[1]..r[2] : s[i] \in Digits
        /\ r[1] = 1 \/ s[r[1] - 1] \notin Digits
        /\ r[2] = Len(s) \/ s[r[2] + 1] \notin Digits }

RunLen(r) == r[2] - r[1] + 1

\* the digits the resolver is to read from the identifier s: all of s when
\* it is purely numeric, else the first run of three digits or more, else
\* the longest run and the earliest of the longest; <<>> without a digit
ResolvedRun(s) ==
    LET runs == DigitRuns(s)
        long == { r \in runs : RunLen(r) >= 3 }
        longest == { r \in runs : \A q \in runs : RunLen(q) <= RunLen(r) }
        first(R) == CHOOSE r \in R : \A q \in R : r[1] <= q[1]
        pick == IF long # {} THEN first(long) ELSE first(longest)
    IN  IF runs = {} THEN <<>> ELSE SubSeq(s, pick[1], pick[2])

\* the identifier of the invoice a credit note refers to
ReferencedIdentifier ==
    LET c == SourceDoc.invoices_credited
    IN  IF c.t = "list" /\ c.refs # <<>> THEN c.refs[1] ELSE Absent

\* C25: the resolver gives the integer of a purely numeric identifier,
\* else of its first digit run of length >= 3, else of its longest digit
\* run, the earliest among equally long ones; it yields the invcNo of an
\* invoice (when of nine digits at most) and the orgInvcNo of a credit
\* note.  "INV-000061" gives 61 and "INV-2024-001" gives 2024.
C25_DocumentNumberResolver ==
    Produced =>
        /\ kind = "invoice" =>
              LET e == ResolvedRun(strip(SourceDoc.invoice_number.s))
              IN  /\ (e # <<>> /\ FitsNineDigits(e)) =>
                        vsdc_payload.invcNo = int(e)
                  /\ SourceDoc.invoice_number = Str(INV_000061) =>
                        vsdc_payload.invcNo = 61
                  /\ SourceDoc.invoice_number = Str(INV_2024_001) =>
                        vsdc_payload.invcNo = 2024
        /\ (kind = "creditnote" /\ ReferencedIdentifier.t = "str") =>
              LET e == ResolvedRun(strip(ReferencedIdentifier.s))
              IN  /\ e # <<>> => vsdc_payload.orgInvcNo = int(e)
                  /\ ReferencedIdentifier = Str(INV_2024_001) =>
                        vsdc_payload.orgInvcNo = 2024

\* the runs "12", "34" and "5": none has three digits, the first of the
\* two longest is read
C25_Witness ==
    /\ Produced
    /\ kind = "creditnote"
    /\ ReferencedIdentifier
         = Str(<<"A", "1", "2", "-", "3", "4", "-", "5">>)
    /\ vsdc_payload.orgInvcNo = 12

\* the invoice transformation applied to a sound invoice whose identifier
\* is x
InvoiceWithIdentifier(x, now) ==
    transform_zoho_to_vsdc(
        [key |-> "invoice", doc |-> [BaseInvoice EXCEPT !.invoice_number = x]],
        now)

\* C26: the orgInvcNo of a produced credit note that refers to an invoice
\* with identifier X is the invcNo the invoice transformation gives an
\* invoice with identifier X, whenever that invoice was submitted.
C26_OriginalNumberIsInvoiceNumber ==
    (Produced /\ kind = "creditnote" /\ ReferencedIdentifier.t = "str") =>
        \A now \in Clock :
            LET r == InvoiceWithIdentifier(ReferencedIdentifier, now)
            IN  r.ok => vsdc_payload.orgInvcNo = r.payload.invcNo

\* the other document kind
OtherKind(k) == IF k = "invoice" THEN "creditnote" ELSE "invoice"

\* the outward status the handler of kind k of application a gives the
\* fiscal response r; a rendering error leaves the 200 of a success
StatusFor(a, k, r) ==
    IF OnReply(a, k, r).next = "render" THEN 200
    ELSE OnReply(a, k, r).outcome.status

\* for an answered 200 response: the credit-note table of the application
\* is its invoice table and entries for the codes `own`; a result code
\* outside `own` gets the status the handler of the other kind gives the
\* same response, and a rejection with a code in `own` gets the table
\* entry from the credit-note handler and 422 from the invoice handler
CreditNoteTableAdds(own) ==
    (pc = "Done" /\ reply.t = "response" /\ reply.status = 200
       /\ reply.body = "json") =>
        LET inv == error_mapping(app, "invoice")
            crn == error_mapping(app, "creditnote")
            c == ResultCode(reply)
        IN  /\ DOMAIN crn = DOMAIN inv \cup own
            /\ DOMAIN inv \cap own = {}
            /\ \A x \in DOMAIN inv : crn[x] = inv[x]
            /\ c \notin own =>
                  outcome.status = StatusFor(app, OtherKind(kind), reply)
            /\ (c \in own /\ Rejected(outcome)) =>
                  outcome.status
                    = (IF kind = "creditnote" THEN crn[c] ELSE 422)

\* C27: the credit-note table is the invoice table plus the two codes 885
\* (original invoice not found) and 886 (credit already issued), and every
\* other result code gets the same outward status for both kinds.
C27_TwoAdditionalCodes == CreditNoteTableAdds({"885", "886"})

\* C27 as amended: the credit-note table is the invoice table plus the
\* three codes 885, 886 and 923 (invalid refund amount); for the same
\* application every other result code gets the same outward status for
\* both kinds, and each of the three gets 422 for an invoice.
C27_ThreeAdditionalCodes == CreditNoteTableAdds({"885", "886", "923"})

C27_Witness ==
    /\ pc = "Done"
    /\ kind = "creditnote"
    /\ Rejected(outcome)
    /\ outcome.code = "923"
    /\ outcome.status = 400

\* C28: a credit note the transformer rejects (no referenced invoice
\* entry, an unparseable date, a non-numeric rate) is answered 400 as a
\* transformation error of the client, never 5xx, and nothing is submitted.
C28_CreditNoteTransformFailureIs400 ==
    (kind = "creditnote" /\ Parsed /\ pc # "Received" /\ TransformFails) =>
        /\ pc = "Done"
        /\ TransformationFailure(outcome)
        /\ outcome.status = 400
        /\ requests = 0
        /\ ~Produced

\* the identifiers the transformation of document kind k resolves from d
IdentifiersOf(k, d) ==
    IF k = "invoice" THEN InvoiceIdentifiers(d) ELSE CreditNoteIdentifiers(d)

\* two resolved identifiers are the same: both have no value, or both have
\* the same one
SameIdentifier(a, b) ==
    IF a.t = "str" /\ a.s # <<>> THEN a = b
    ELSE b.t # "str" \/ b.s = <<>>

\* the custom fields of d have a business TIN
BusinessTinPresent(d) ==
    LET v == FirstNonEmpty(<<d.custom_field_hash.cf_tin,
                             ListValue(d.custom_fields, "cf_tin", 1)>>, 1)
    IN  v.t = "str" /\ strip(v.s) # <<>>

\* C29: for a document whose business TIN is present, the business TIN, the
\* customer TIN and the purchase code of the produced fiscal payload are
\* those the transformation of the other document kind resolves from the
\* same custom-field content.
C29_IdentifiersIndependentOfKind ==
    (Produced /\ BusinessTinPresent(SourceDoc)) =>
        LET other == IdentifiersOf(OtherKind(kind), SourceDoc)
        IN  /\ SameIdentifier(vsdc_payload.tin, other.tin)
            /\ SameIdentifier(vsdc_payload.custTin, other.custTin)
            /\ SameIdentifier(vsdc_payload.prcOrdCd, other.prcOrdCd)

\* An invocation runs on: the event loop resumes the handler's coroutine,
\* the transformer and the rendering are local computations, and the call
\* to the fiscal endpoint returns, fails or times out (timeout=30.0).
\* The transformer returns or raises on every body, so its step is enabled
\* exactly when pc = "Received"; TransformRuns is weak fairness of that
\* step with the enabling condition written out.
TransformRuns ==
    \/ []<>(pc # "Received")
    \/ []<><<\E now \in Clock : Transform(now)>>_vars

RunsToCompletion ==
    /\ TransformRuns
    /\ WF_vars(Submit)
    /\ WF_vars(\E r \in Replies : Respond(r))
    /\ WF_vars(Interpret)
    /\ WF_vars(\E ok \in BOOLEAN, now \in Clock : Rendered(ok, now))

FairSpec == Spec /\ RunsToCompletion

\* the answer reports a failure of the invocation itself
Failed(o) ==
    \/ TransformationFailure(o)
    \/ TransportFailureKind(o) # ""
    \/ o.error_type \in {"internal_processing_error",
                         "internal_credit_note_processing_error"}

\* the terminal outcomes an answer amounts to
Outcomes(o) ==
    { t \in {"Succeeded", "Rejected", "Failed"} :
        \/ t = "Succeeded" /\ Succeeded(o)
        \/ t = "Rejected" /\ Rejected(o)
        \/ t = "Failed" /\ Failed(o) }

\* the position of a stage in the order of the handler
Stage(p) ==
    CASE p = "Idle" -> 0
      [] p = "Received" -> 1
      [] p = "Transformed" -> 2
      [] p = "Submitting" -> 3
      [] p = "Interpreting" -> 4
      [] p = "Rendering" -> 5
      [] p = "Done" -> 6

\* a step of an invocation moves to a later stage; only the answer given at
\* the end makes room for the next invocation
Forward == Stage(pc') > Stage(pc) \/ (pc = "Done" /\ pc' = "Idle")

====
